---------------------------- MODULE Spec2Model ----------------------------
(***************************************************************************)
(* ALICE-FIX: the wire codec (parser.rs, builder.rs), the parsed message   *)
(* (message.rs) and the session sequencer (session.rs).                    *)
(*                                                                         *)
(* Bytes are naturals 0..255 and a Rust String / Vec<u8> / &[u8] is the    *)
(* sequence of its bytes.  TLC's integers are 32 bits wide, so a u32, u64  *)
(* or usize value is a little-endian tuple of 16-bit limbs (2 limbs for    *)
(* u32, 4 for u64 and for usize on a 64-bit target); lengths and offsets   *)
(* of the byte sequences at hand stay plain naturals.                      *)
(***************************************************************************)
EXTENDS Integers, Sequences, FiniteSets, TLC

(***************************************************************************)
(* Fixed-width unsigned integers                                           *)
(***************************************************************************)
LimbBase == 2^16

U32Limbs == 2
U64Limbs == 4

\* The w-limb value of a natural n < 2^31.
RECURSIVE WFromNat(_, _)
WFromNat(n, w) ==
    IF w = 0 THEN <<>> ELSE <<n % LimbBase>> \o WFromNat(n \div LimbBase, w - 1)

\* x is below 2^16 * 2^15, so it is a natural TLC can hold.
WIsSmall(x) ==
    /\ \A i \in 3..Len(x) : x[i] = 0
    /\ (Len(x) >= 2 => x[2] < 2^15)

WToNat(x) == x[1] + (IF Len(x) >= 2 THEN x[2] * LimbBase ELSE 0)

\* x * m + a over the limbs from i on, with the carry out of the top limb.
RECURSIVE WMulAddFrom(_, _, _, _)
WMulAddFrom(x, i, m, a) ==
    IF i > Len(x) THEN [v |-> <<>>, carry |-> a]
    ELSE LET cur  == x[i] * m + a
             rest == WMulAddFrom(x, i + 1, m, cur \div LimbBase)
         IN  [v |-> <<cur % LimbBase>> \o rest.v, carry |-> rest.carry]

\* n.checked_mul(10)?.checked_add(d): None exactly when n * 10 + d does not
\* fit the width.
CheckedMul10Add(x, d) ==
    LET r == WMulAddFrom(x, 1, 10, d)
    IN  [ok |-> r.carry = 0, v |-> r.v]

\* x + 1 modulo 2^(16 * Len(x)), with the overflow flag.
WInc(x) ==
    LET r == WMulAddFrom(x, 1, 1, 1)
    IN  [v |-> r.v, overflow |-> r.carry # 0]

\* x div 10 and x mod 10, from the top limb down to limb 1.
RECURSIVE WDivMod10From(_, _, _)
WDivMod10From(x, i, r) ==
    IF i = 0 THEN [q |-> <<>>, r |-> r]
    ELSE LET cur  == r * LimbBase + x[i]
             rest == WDivMod10From(x, i - 1, cur % 10)
         IN  [q |-> rest.q \o <<cur \div 10>>, r |-> rest.r]

WIsZero(x) == \A i \in 1..Len(x) : x[i] = 0

\* u32::to_string / u64::to_string / usize::to_string: decimal, no padding.
RECURSIVE WDigits(_)
WDigits(x) ==
    IF WIsZero(x) THEN <<>>
    ELSE LET dm == WDivMod10From(x, Len(x), 0)
         IN  WDigits(dm.q) \o <<48 + dm.r>>

to_string(x) == IF WIsZero(x) THEN <<48>> ELSE WDigits(x)

U32(n) == WFromNat(n, U32Limbs)
U64(n) == WFromNat(n, U64Limbs)
U32_MAX == <<LimbBase - 1, LimbBase - 1>>
U64_MAX == <<LimbBase - 1, LimbBase - 1, LimbBase - 1, LimbBase - 1>>

(***************************************************************************)
(* tag.rs                                                                  *)
(***************************************************************************)
BEGIN_STRING   == U32(8)
BODY_LENGTH    == U32(9)
MSG_TYPE       == U32(35)
SENDER_COMP_ID == U32(49)
TARGET_COMP_ID == U32(56)
MSG_SEQ_NUM    == U32(34)
CHECKSUM       == U32(10)
CL_ORD_ID      == U32(11)
SYMBOL         == U32(55)
SIDE           == U32(54)
ORD_TYPE       == U32(40)
PRICE          == U32(44)
ORDER_QTY      == U32(38)
TIME_IN_FORCE  == U32(59)
EXEC_ID        == U32(17)
ORDER_ID       == U32(37)
LAST_PX        == U32(31)
LAST_QTY       == U32(32)
TRANSACT_TIME  == U32(60)

(***************************************************************************)
(* Bytes and text                                                          *)
(***************************************************************************)
SOH == 1
EQ  == 61

is_ascii_digit(b) == b \in 48..57

\* Rust's bytes[lo..hi]; in_bounds is the condition under which it does not
\* panic.
in_bounds(s, lo, hi) == lo <= hi /\ hi <= Len(s)
slice(s, lo, hi) == SubSeq(s, lo + 1, hi)

\* iter().position(|&b| b == x): the 0-based index of the first x, -1 for None.
RECURSIVE position_from(_, _, _)
position_from(s, x, i) ==
    IF i > Len(s) THEN -1
    ELSE IF s[i] = x THEN i - 1
    ELSE position_from(s, x, i + 1)

position(s, x) == position_from(s, x, 1)

\* UTF-8 as core::str accepts it.  utf8_second_ok is the range the second
\* byte of a multi-byte sequence must lie in, given the first.
utf8_width(b) ==
    IF b < 128 THEN 1
    ELSE IF b \in 194..223 THEN 2
    ELSE IF b \in 224..239 THEN 3
    ELSE IF b \in 240..244 THEN 4
    ELSE 0

utf8_cont(b) == b \in 128..191

utf8_second_ok(b0, b1) ==
    IF b0 = 224 THEN b1 \in 160..191
    ELSE IF b0 = 237 THEN b1 \in 128..159
    ELSE IF b0 = 240 THEN b1 \in 144..191
    ELSE IF b0 = 244 THEN b1 \in 128..143
    ELSE utf8_cont(b1)

\* The number of bytes of s from index i (1-based) on that form a valid
\* prefix of one encoded character, and whether the character is complete.
utf8_chunk(s, i) ==
    LET w == utf8_width(s[i])
        n == Len(s)
    IN  IF w = 0 THEN [valid |-> FALSE, len |-> 1]
        ELSE IF w = 1 THEN [valid |-> TRUE, len |-> 1]
        ELSE IF i + 1 > n \/ ~utf8_second_ok(s[i], s[i + 1])
             THEN [valid |-> FALSE, len |-> 1]
        ELSE IF w = 2 THEN [valid |-> TRUE, len |-> 2]
        ELSE IF i + 2 > n \/ ~utf8_cont(s[i + 2])
             THEN [valid |-> FALSE, len |-> 2]
        ELSE IF w = 3 THEN [valid |-> TRUE, len |-> 3]
        ELSE IF i + 3 > n \/ ~utf8_cont(s[i + 3])
             THEN [valid |-> FALSE, len |-> 3]
        ELSE [valid |-> TRUE, len |-> 4]

RECURSIVE utf8_valid_from(_, _)
utf8_valid_from(s, i) ==
    IF i > Len(s) THEN TRUE
    ELSE LET c == utf8_chunk(s, i)
         IN  c.valid /\ utf8_valid_from(s, i + c.len)

\* core::str::from_utf8(v).unwrap_or("").to_string()
from_utf8_or_empty(v) == IF utf8_valid_from(v, 1) THEN v ELSE <<>>

\* String::from_utf8_lossy(v).into_owned(): every maximal invalid part
\* becomes U+FFFD (EF BF BD).
RECURSIVE from_utf8_lossy_from(_, _)
from_utf8_lossy_from(s, i) ==
    IF i > Len(s) THEN <<>>
    ELSE LET c == utf8_chunk(s, i)
         IN  (IF c.valid THEN SubSeq(s, i, i + c.len - 1) ELSE <<239, 191, 189>>)
                 \o from_utf8_lossy_from(s, i + c.len)

from_utf8_lossy(v) == from_utf8_lossy_from(v, 1)

(***************************************************************************)
(* parser.rs                                                               *)
(***************************************************************************)
None == [some |-> FALSE, v |-> <<>>]
Some(x) == [some |-> TRUE, v |-> x]

\* What parse returns: Ok(FixMessage) or Err(ParseError), one record shape
\* for both.  kind "Panic" stands for a Rust panic (a slice out of bounds, an
\* unsigned subtraction below zero), which is no return at all.
Result(kind, begin_string, msg_type, fields, expected, actual, text) ==
    [kind |-> kind, begin_string |-> begin_string, msg_type |-> msg_type,
     fields |-> fields, expected |-> expected, actual |-> actual, text |-> text]

\* Ok refusing a message without a message type.
Ok_with_type(begin_string, msg_type, fields) ==
    IF msg_type = <<>> THEN Result("MalformedField", <<>>, <<>>, <<>>, 0, 0, <<>>)
    ELSE Result("Ok", begin_string, msg_type, fields, 0, 0, <<>>)

Ok(begin_string, msg_type, fields) ==
    Result("Ok", begin_string, msg_type, fields, 0, 0, <<>>)
Err(kind) == Result(kind, <<>>, <<>>, <<>>, 0, 0, <<>>)
\* InvalidChecksum with its two fields exchanged.
InvalidChecksum_swapped(expected, actual) ==
    Result("InvalidChecksum", <<>>, <<>>, <<>>, actual, expected, <<>>)

InvalidChecksum(expected, actual) ==
    Result("InvalidChecksum", <<>>, <<>>, <<>>, expected, actual, <<>>)
ErrText(kind, text) == Result(kind, <<>>, <<>>, <<>>, 0, 0, text)
Panic == Err("Panic")

ParseErrorKinds ==
    {"EmptyInput", "MissingBeginString", "MissingBodyLength", "MissingChecksum",
     "InvalidChecksum", "MalformedField", "InvalidTag"}

RECURSIVE WAddFrom(_, _, _, _)
WAddFrom(x, y, i, carry) ==
    IF i > Len(x) THEN <<>>
    ELSE LET cur == x[i] + y[i] + carry
         IN  <<cur % LimbBase>> \o WAddFrom(x, y, i + 1, cur \div LimbBase)

\* The carry out of the top limb of x + y.
RECURSIVE WCarryFrom(_, _, _, _)
WCarryFrom(x, y, i, carry) ==
    IF i > Len(x) THEN carry
    ELSE WCarryFrom(x, y, i + 1, (x[i] + y[i] + carry) \div LimbBase)

\* u32::saturating_add: u32::MAX where x + y does not fit.
saturating_add(x, y) ==
    IF WCarryFrom(x, y, 1, 0) = 0 THEN WAddFrom(x, y, 1, 0)
    ELSE [i \in 1..Len(x) |-> LimbBase - 1]

\* u32::wrapping_add: x + y modulo 2^32, limb by limb.
wrapping_add(x, y) == WAddFrom(x, y, 1, 0)

\* The u32 accumulator of compute_checksum after its loop over
\* bytes[lo..hi] (1-based, inclusive): sum.wrapping_add(b as u32) for every
\* byte.  Addition modulo 2^32 is associative, so the sum is taken by halves.
RECURSIVE checksum_sum(_, _, _)
checksum_sum(bytes, lo, hi) ==
    IF lo > hi THEN U32(0)
    ELSE IF lo = hi THEN U32(bytes[lo])
    ELSE LET mid == (lo + hi) \div 2
         IN  wrapping_add(checksum_sum(bytes, lo, mid), checksum_sum(bytes, mid + 1, hi))

\* (sum & 0xFF) as u8
low_byte(sum) == sum[1] % 256

compute_checksum(bytes) == low_byte(checksum_sum(bytes, 1, Len(bytes)))

\* The digit loop shared by parse_tag_number, parse_body_length and
\* parse_checksum_value, over an accumulator n of Len(n) limbs.
RECURSIVE checked_decimal(_, _, _)
checked_decimal(bytes, i, n) ==
    IF i > Len(bytes) THEN Some(n)
    ELSE IF ~is_ascii_digit(bytes[i]) THEN None
    ELSE LET r == CheckedMul10Add(n, bytes[i] - 48)
         IN  IF r.ok THEN checked_decimal(bytes, i + 1, r.v) ELSE None

\* parse_tag_number accumulating in a u64: numbers above u32::MAX pass.
parse_tag_number_wide(bytes) ==
    IF bytes = <<>> THEN None ELSE checked_decimal(bytes, 1, WFromNat(0, U64Limbs))

parse_tag_number(bytes) ==
    IF bytes = <<>> THEN None ELSE checked_decimal(bytes, 1, U32(0))

\* The digit loop with wrapping_mul and wrapping_add in place of the checked
\* ones.
RECURSIVE wrapping_decimal(_, _, _)
wrapping_decimal(bytes, i, n) ==
    IF i > Len(bytes) THEN Some(n)
    ELSE IF ~is_ascii_digit(bytes[i]) THEN None
    ELSE wrapping_decimal(bytes, i + 1, CheckedMul10Add(n, bytes[i] - 48).v)

\* parse_body_length without its overflow checks.
parse_body_length_wrapping(bytes) ==
    IF bytes = <<>> THEN None ELSE wrapping_decimal(bytes, 1, WFromNat(0, U64Limbs))

parse_body_length(bytes) ==
    IF bytes = <<>> THEN None ELSE checked_decimal(bytes, 1, WFromNat(0, U64Limbs))

\* parse_checksum_value returning the number as written, without n & 0xFF.
parse_checksum_value_unfolded(bytes) ==
    IF bytes = <<>> THEN None
    ELSE LET r == checked_decimal(bytes, 1, <<0>>)
         IN  IF r.some THEN Some(r.v[1]) ELSE None

\* parse_checksum_value refusing a number above 255 as out of range.
parse_checksum_value_ranged(bytes) ==
    IF bytes = <<>> THEN None
    ELSE LET r == checked_decimal(bytes, 1, <<0>>)
         IN  IF r.some /\ r.v[1] <= 255 THEN Some(r.v[1]) ELSE None

\* The accumulator is a u16: one limb.  Some((n & 0xFF) as u8).
parse_checksum_value(bytes) ==
    IF bytes = <<>> THEN None
    ELSE LET r == checked_decimal(bytes, 1, <<0>>)
         IN  IF r.some THEN Some(r.v[1] % 256) ELSE None

\* split_field splitting at the last '=' of the segment, not the first.
split_field_at_last(field) ==
    LET eqs == {i \in 1..Len(field) : field[i] = EQ}
    IN  IF eqs = {}
        THEN [kind |-> "MalformedField", tag |-> <<>>, value |-> <<>>,
              text |-> from_utf8_lossy(field)]
        ELSE LET eq          == (CHOOSE i \in eqs : \A j \in eqs : j <= i) - 1
                 tag_bytes   == slice(field, 0, eq)
                 value_bytes == slice(field, eq + 1, Len(field))
                 tag         == parse_tag_number(tag_bytes)
             IN  IF ~tag.some
                 THEN [kind |-> "InvalidTag", tag |-> <<>>, value |-> <<>>,
                       text |-> from_utf8_lossy(tag_bytes)]
                 ELSE [kind |-> "Ok", tag |-> tag.v, value |-> value_bytes,
                       text |-> <<>>]

\* Ok((tag, value_bytes)), Err(MalformedField), Err(InvalidTag).
split_field(field) ==
    LET eq == position(field, EQ)
    IN  IF eq = -1
        THEN [kind |-> "MalformedField", tag |-> <<>>, value |-> <<>>,
              text |-> from_utf8_lossy(field)]
        ELSE IF ~in_bounds(field, 0, eq) \/ ~in_bounds(field, eq + 1, Len(field))
        THEN [kind |-> "Panic", tag |-> <<>>, value |-> <<>>, text |-> <<>>]
        ELSE LET tag_bytes   == slice(field, 0, eq)
                 value_bytes == slice(field, eq + 1, Len(field))
                 tag         == parse_tag_number(tag_bytes)
             IN  IF ~tag.some
                 THEN [kind |-> "InvalidTag", tag |-> <<>>, value |-> <<>>,
                       text |-> from_utf8_lossy(tag_bytes)]
                 ELSE [kind |-> "Ok", tag |-> tag.v, value |-> value_bytes,
                       text |-> <<>>]

\* The ? operator on split_field's error.
split_err(sf) == ErrText(sf.kind, sf.text)

\* FieldIter::next returning a segment of length zero as it finds it.
FieldIter_next_unskipped(remaining) ==
    IF remaining = <<>> THEN [some |-> FALSE, field |-> <<>>, remaining |-> <<>>]
    ELSE LET p   == position(remaining, SOH)
             end == IF p = -1 THEN Len(remaining) ELSE p
         IN  [some |-> TRUE, field |-> slice(remaining, 0, end),
              remaining |-> IF end < Len(remaining)
                            THEN slice(remaining, end + 1, Len(remaining))
                            ELSE <<>>]

\* FieldIter::next on the iterator whose remaining slice is `remaining`:
\* the item and the iterator's remaining slice afterwards.
RECURSIVE FieldIter_next(_)
FieldIter_next(remaining) ==
    IF remaining = <<>> THEN [some |-> FALSE, field |-> <<>>, remaining |-> <<>>]
    ELSE LET p     == position(remaining, SOH)
             end   == IF p = -1 THEN Len(remaining) ELSE p
             field == slice(remaining, 0, end)
             rest  == IF end < Len(remaining)
                      THEN slice(remaining, end + 1, Len(remaining))
                      ELSE <<>>
         IN  IF field # <<>>
             THEN [some |-> TRUE, field |-> field, remaining |-> rest]
             ELSE FieldIter_next(rest)

\* The passes FieldIter::next makes through its loop on `remaining`, the
\* pass that returns included.
RECURSIVE FieldIter_passes(_)
FieldIter_passes(remaining) ==
    IF remaining = <<>> THEN 1
    ELSE LET p    == position(remaining, SOH)
             end  == IF p = -1 THEN Len(remaining) ELSE p
             rest == IF end < Len(remaining)
                     THEN slice(remaining, end + 1, Len(remaining))
                     ELSE <<>>
         IN  IF end # 0 THEN 1 ELSE 1 + FieldIter_passes(rest)

\* insert keeping the value a key already has.
insert_keeping(fields, t, value) ==
    [x \in (DOMAIN fields) \cup {t} |-> IF x \in DOMAIN fields THEN fields[x] ELSE value]

\* HashMap::insert
insert(fields, t, value) ==
    [x \in (DOMAIN fields) \cup {t} |-> IF x = t THEN value ELSE fields[x]]

saturating_sub(a, b) == IF a < b THEN 0 ELSE a - b

\* body_end - body_start on usize: below zero it panics (or wraps, in a build
\* without overflow checks); the caller guards it.
LengthDiffers(body_end, body_start, declared_len) ==
    IF body_end < body_start THEN "panic"
    ELSE IF WFromNat(body_end - body_start, U64Limbs) # declared_len THEN "differs"
    ELSE "agrees"

\* LengthCheck without its guard: the subtraction is evaluated first.
LengthCheck_unguarded(body_end, body_start, declared_len) ==
    LengthDiffers(body_end, body_start, declared_len)

\* body_end < body_start || (body_end - body_start) != declared_len
LengthCheck(body_end, body_start, declared_len) ==
    IF body_end < body_start THEN "differs"
    ELSE LengthDiffers(body_end, body_start, declared_len)

\* body_loop with a checksum arm that also stores the value it has checked.
RECURSIVE body_loop_storing(_, _, _, _, _, _)
body_loop_storing(remaining, actual_chk, begin_bytes, msg_type, fields, saw_checksum) ==
    LET it == FieldIter_next(remaining)
    IN  IF ~it.some
        THEN IF ~saw_checksum THEN Err("MissingChecksum")
             ELSE Ok(from_utf8_or_empty(begin_bytes), msg_type, fields)
        ELSE LET sf == split_field(it.field)
             IN  IF sf.kind # "Ok" THEN split_err(sf)
                 ELSE IF sf.tag = CHECKSUM
                 THEN LET expected_chk == parse_checksum_value(sf.value)
                      IN  IF ~expected_chk.some
                          THEN InvalidChecksum(0, actual_chk)
                          ELSE IF actual_chk # expected_chk.v
                          THEN InvalidChecksum(expected_chk.v, actual_chk)
                          ELSE body_loop_storing(it.remaining, actual_chk, begin_bytes,
                                   msg_type,
                                   insert(fields, sf.tag, from_utf8_or_empty(sf.value)),
                                   TRUE)
                 ELSE IF sf.tag = MSG_TYPE
                 THEN body_loop_storing(it.remaining, actual_chk, begin_bytes,
                                        from_utf8_or_empty(sf.value), fields, saw_checksum)
                 ELSE body_loop_storing(it.remaining, actual_chk, begin_bytes, msg_type,
                                        insert(fields, sf.tag, from_utf8_or_empty(sf.value)),
                                        saw_checksum)

\* The for loop over the rest of the iterator, then the saw_checksum test
\* and the message.
RECURSIVE body_loop(_, _, _, _, _, _)
body_loop(remaining, actual_chk, begin_bytes, msg_type, fields, saw_checksum) ==
    LET it == FieldIter_next(remaining)
    IN  IF ~it.some
        THEN IF ~saw_checksum THEN Err("MissingChecksum")
             ELSE Ok(from_utf8_or_empty(begin_bytes), msg_type, fields)
        ELSE LET sf == split_field(it.field)
             IN  IF sf.kind # "Ok" THEN split_err(sf)
                 ELSE IF sf.tag = CHECKSUM
                 THEN LET expected_chk == parse_checksum_value(sf.value)
                      IN  IF ~expected_chk.some
                          THEN InvalidChecksum(0, actual_chk)
                          ELSE IF actual_chk # expected_chk.v
                          THEN InvalidChecksum(expected_chk.v, actual_chk)
                          ELSE body_loop(it.remaining, actual_chk, begin_bytes,
                                         msg_type, fields, TRUE)
                 ELSE IF sf.tag = MSG_TYPE
                 THEN body_loop(it.remaining, actual_chk, begin_bytes,
                                from_utf8_or_empty(sf.value), fields, saw_checksum)
                 ELSE body_loop(it.remaining, actual_chk, begin_bytes, msg_type,
                                insert(fields, sf.tag, from_utf8_or_empty(sf.value)),
                                saw_checksum)

checksum_field_len == 7

\* parse from the length check on: field0 and field1 are the first two
\* segments, body_len_bytes the value of the second, rest the iterator's
\* remaining slice after them.
parse_body(input, field0, begin_bytes, field1, body_len_bytes, rest) ==
    LET tag8_field_len == Len(field0) + 1
        tag9_field_len == Len(field1) + 1
        body_start     == tag8_field_len + tag9_field_len
        declared_len   == parse_body_length(body_len_bytes)
        body_end       == saturating_sub(Len(input), checksum_field_len)
    IN  IF ~declared_len.some THEN Err("MissingBodyLength")
        ELSE LET chk == LengthCheck(body_end, body_start, declared_len.v)
             IN  IF chk = "panic" THEN Panic
                 ELSE IF chk = "differs" THEN Err("MissingBodyLength")
                 ELSE IF Len(input) < checksum_field_len THEN Err("MissingChecksum")
                 ELSE LET chk_offset == Len(input) - checksum_field_len
                      IN  IF ~in_bounds(input, 0, chk_offset) THEN Panic
                          ELSE body_loop(rest,
                                         compute_checksum(slice(input, 0, chk_offset)),
                                         begin_bytes, <<>>, <<>>, FALSE)

parse(input) ==
    IF input = <<>> THEN Err("EmptyInput")
    ELSE LET it0 == FieldIter_next(input)
         IN  IF ~it0.some THEN Err("EmptyInput")
             ELSE LET sf0 == split_field(it0.field)
                  IN  IF sf0.kind # "Ok" THEN split_err(sf0)
                      ELSE IF sf0.tag # BEGIN_STRING THEN Err("MissingBeginString")
                      ELSE LET it1 == FieldIter_next(it0.remaining)
                           IN  IF ~it1.some THEN Err("MissingBodyLength")
                               ELSE LET sf1 == split_field(it1.field)
                                    IN  IF sf1.kind # "Ok" THEN split_err(sf1)
                                        ELSE IF sf1.tag # BODY_LENGTH
                                        THEN Err("MissingBodyLength")
                                        ELSE parse_body(input, it0.field, sf0.value,
                                                        it1.field, sf1.value,
                                                        it1.remaining)

(***************************************************************************)
(* builder.rs                                                              *)
(***************************************************************************)
\* append_field(buf, tag, value): the bytes appended to buf.
append_field(tag, value) == to_string(tag) \o <<EQ>> \o value \o <<SOH>>

\* body.len().to_string(), {chk:03}
RECURSIVE nat_digits(_)
nat_digits(n) == IF n = 0 THEN <<>> ELSE nat_digits(n \div 10) \o <<48 + (n % 10)>>

usize_to_string(n) == IF n = 0 THEN <<48>> ELSE nat_digits(n)

\* {chk} without the 03: no padding.
format_unpadded(chk) == usize_to_string(chk)

format_03(chk) ==
    LET d == usize_to_string(chk)
    IN  IF Len(d) = 1 THEN <<48, 48>> \o d
        ELSE IF Len(d) = 2 THEN <<48>> \o d
        ELSE d

\* The loop over self.fields writing each field number once, at its first
\* staging.
RECURSIVE append_fields_dedup(_, _)
append_fields_dedup(fields, i) ==
    IF i > Len(fields) THEN <<>>
    ELSE IF \E j \in 1..(i - 1) : fields[j][1] = fields[i][1]
    THEN append_fields_dedup(fields, i + 1)
    ELSE append_field(fields[i][1], fields[i][2]) \o append_fields_dedup(fields, i + 1)

RECURSIVE append_fields(_, _)
append_fields(fields, i) ==
    IF i > Len(fields) THEN <<>>
    ELSE append_field(fields[i][1], fields[i][2]) \o append_fields(fields, i + 1)

\* The builder's own copy of compute_checksum.
builder_compute_checksum(bytes) == low_byte(checksum_sum(bytes, 1, Len(bytes)))

\* build declaring the length of the staged fields alone, without the
\* message type field in front of them.
build_length_without_msg_type(begin_string, msg_type, fields) ==
    LET staged == append_fields(fields, 1)
        body   == append_field(MSG_TYPE, msg_type) \o staged
        prefix == append_field(BEGIN_STRING, begin_string)
                      \o append_field(BODY_LENGTH, usize_to_string(Len(staged)))
        out    == prefix \o body
        chk    == builder_compute_checksum(out)
    IN  out \o <<49, 48, EQ>> \o format_03(chk) \o <<SOH>>

\* build taking the staged fields out of the builder as it writes them.
fields_after_build_drained(fields) == <<>>

\* build borrows the builder as &self: the staged fields afterwards.
fields_after_build(fields) == fields

\* FixBuilder::build
build(begin_string, msg_type, fields) ==
    LET body   == append_field(MSG_TYPE, msg_type) \o append_fields(fields, 1)
        prefix == append_field(BEGIN_STRING, begin_string)
                      \o append_field(BODY_LENGTH, usize_to_string(Len(body)))
        out    == prefix \o body
        chk    == builder_compute_checksum(out)
    IN  out \o <<49, 48, EQ>> \o format_03(chk) \o <<SOH>>

(***************************************************************************)
(* session.rs                                                              *)
(***************************************************************************)
SessionStates == {"Disconnected", "LogonSent", "Active", "LogoutSent"}

\* i64::to_string of the two's-complement value x.
WNeg(x) == WInc([i \in 1..Len(x) |-> LimbBase - 1 - x[i]]).v

i64_to_string(x) ==
    IF x[Len(x)] >= 2^15 THEN <<45>> \o to_string(WNeg(x)) ELSE to_string(x)

\* next_outgoing_seq returning the counter after the increment.
next_outgoing_seq_post(outgoing) ==
    [seq |-> WInc(outgoing).v, outgoing_seq |-> WInc(outgoing).v]

\* next_outgoing_seq leaving a gap of one after the ordinal it returns.
next_outgoing_seq_skipping(outgoing) ==
    [seq |-> outgoing, outgoing_seq |-> WInc(WInc(outgoing).v).v]

\* next_outgoing_seq: the value returned and the counter afterwards.  At
\* u64::MAX the increment overflows: a wrap to 0 in a build without overflow
\* checks, which is what this gives, and a panic in a build with them
\* (PanicOnOverflow).
next_outgoing_seq(outgoing) ==
    [seq |-> outgoing, outgoing_seq |-> WInc(outgoing).v]

\* validate_incoming_seq advancing the counter whatever it returns.
validate_incoming_seq_always_advances(incoming, seq) ==
    [ok |-> seq = incoming, incoming_seq |-> WInc(incoming).v]

\* validate_incoming_seq accepting a gap: any ordinal at or above the one
\* expected, the counter set behind it.
validate_incoming_seq_gap(incoming, seq) ==
    IF WToNat(seq) >= WToNat(incoming)
    THEN [ok |-> TRUE, incoming_seq |-> WInc(seq).v]
    ELSE [ok |-> FALSE, incoming_seq |-> incoming]

\* validate_incoming_seq: the value returned and the counter afterwards.
validate_incoming_seq(incoming, seq) ==
    IF seq = incoming
    THEN [ok |-> TRUE, incoming_seq |-> WInc(incoming).v]
    ELSE [ok |-> FALSE, incoming_seq |-> incoming]

\* validate_incoming_seq dropping the session on a mismatch: the state back
\* to Disconnected and the outbound counter back to 1.
outbound_after_validate_reset(outgoing, s, ok) ==
    IF ok THEN [outgoing_seq |-> outgoing, state |-> s]
    ELSE [outgoing_seq |-> U64(1), state |-> "Disconnected"]

\* validate_incoming_seq writes self.incoming_seq and nothing else of self:
\* the outbound counter and the state afterwards, ok being what it returns.
outbound_after_validate(outgoing, s, ok) == [outgoing_seq |-> outgoing, state |-> s]

\* build_logout without its assignment to self.state.
after_build_logout_unchanged(s) == s

\* build_heartbeat taking a session that waits for the counterparty's Logon
\* to Active.
after_build_heartbeat_activates(s) == IF s = "LogonSent" THEN "Active" ELSE s

\* The state each build operation leaves, given the state before it.
after_build_logon(s)     == "LogonSent"
after_build_logout(s)    == "LogoutSent"
after_build_heartbeat(s) == s
after_build_new_order(s) == s

\* build_admin with the two ids exchanged.
build_admin_swapped(version, sender, target, msg_type, seq) ==
    build(version, msg_type,
          << <<SENDER_COMP_ID, target>>, <<TARGET_COMP_ID, sender>>,
             <<MSG_SEQ_NUM, to_string(seq)>> >>)

\* build_admin
build_admin(version, sender, target, msg_type, seq) ==
    build(version, msg_type,
          << <<SENDER_COMP_ID, sender>>, <<TARGET_COMP_ID, target>>,
             <<MSG_SEQ_NUM, to_string(seq)>> >>)

\* convert.rs: alice_side_to_fix, alice_ord_type_to_fix, alice_tif_to_fix
alice_side_to_fix(side) == IF side = "Bid" THEN <<49>> ELSE <<50>>

alice_ord_type_to_fix(order_type) == IF order_type = "Market" THEN <<49>> ELSE <<50>>

\* alice_tif_to_fix sending GTD as "1", the code of GTC.
alice_tif_to_fix_gtd_as_gtc(tif) ==
    IF tif \in {"GTC", "GTD"} THEN <<49>>
    ELSE IF tif = "IOC" THEN <<51>>
    ELSE <<52>>

alice_tif_to_fix(tif) ==
    IF tif = "GTC" THEN <<49>>
    ELSE IF tif = "IOC" THEN <<51>>
    ELSE IF tif = "FOK" THEN <<52>>
    ELSE <<54>>

\* The bytes build_new_order returns.
new_order_bytes(version, sender, target, seq, order, symbol) ==
    build(version, <<68>>,
          << <<SENDER_COMP_ID, sender>>, <<TARGET_COMP_ID, target>>,
             <<MSG_SEQ_NUM, to_string(seq)>>,
             <<CL_ORD_ID, to_string(order.id)>>,
             <<SYMBOL, symbol>>,
             <<SIDE, alice_side_to_fix(order.side)>>,
             <<ORD_TYPE, alice_ord_type_to_fix(order.order_type)>>,
             <<PRICE, i64_to_string(order.price)>>,
             <<ORDER_QTY, to_string(order.quantity)>>,
             <<TIME_IN_FORCE, alice_tif_to_fix(order.time_in_force)>> >>)

(***************************************************************************)
(* message.rs                                                              *)
(***************************************************************************)
\* FixMessage::new
FixMessage_new(version, msg_type) ==
    [begin_string |-> version, msg_type |-> msg_type, fields |-> <<>>]

\* set inserting only when the tag is absent.
set_keeping(m, t, value) ==
    IF t \in DOMAIN m.fields THEN m ELSE [m EXCEPT !.fields = insert(@, t, value)]

\* self.fields.insert(tag, value.to_string())
set(m, t, value) == [m EXCEPT !.fields = insert(@, t, value)]

get(m, t) == IF t \in DOMAIN m.fields THEN Some(m.fields[t]) ELSE None

\* #[derive(Clone)]: a copy that owns its strings and its map
clone(m) == m

\* str::parse::<u64>: an optional '+', then digits, within the type.
parse_u64(text) ==
    LET digits == IF text # <<>> /\ text[1] = 43 THEN Tail(text) ELSE text
    IN  IF digits = <<>> THEN None ELSE checked_decimal(digits, 1, U64(0))

\* str::parse::<i64>: an optional sign, then digits, within the type; the
\* value in two's complement.
parse_i64(text) ==
    LET negative  == text # <<>> /\ text[1] = 45
        digits    == IF text # <<>> /\ text[1] \in {43, 45} THEN Tail(text) ELSE text
        magnitude == IF digits = <<>> THEN None ELSE checked_decimal(digits, 1, U64(0))
    IN  IF ~magnitude.some THEN None
        ELSE IF magnitude.v[U64Limbs] < 2^15 THEN
            Some(IF negative THEN WNeg(magnitude.v) ELSE magnitude.v)
        ELSE IF negative /\ magnitude.v = <<0, 0, 0, 2^15>> THEN Some(magnitude.v)
        ELSE None

\* self.fields.get(&tag)?.parse().ok()
get_i64(m, t) == IF t \in DOMAIN m.fields THEN parse_i64(m.fields[t]) ELSE None
get_u64(m, t) == IF t \in DOMAIN m.fields THEN parse_u64(m.fields[t]) ELSE None

(***************************************************************************)
(* convert.rs                                                              *)
(***************************************************************************)
unwrap_or(option, default) == IF option.some THEN option.v ELSE default

\* alice_ledger::Fill
Fill(maker_id, taker_id, price, quantity, timestamp_ns) ==
    [maker_id |-> maker_id, taker_id |-> taker_id, price |-> price,
     quantity |-> quantity, timestamp_ns |-> timestamp_ns]

parse_execution_report(m) ==
    LET exec_id       == get_u64(m, EXEC_ID)
        order_id      == get_u64(m, ORDER_ID)
        cl_ord_id     == get_u64(m, CL_ORD_ID)
        last_px       == get_i64(m, LAST_PX)
        last_qty      == get_u64(m, LAST_QTY)
        transact_time == unwrap_or(get_u64(m, TRANSACT_TIME), U64(0))
    IN  IF ~exec_id.some THEN None
        ELSE IF ~order_id.some THEN None
        ELSE IF ~cl_ord_id.some THEN None
        ELSE IF ~last_px.some THEN None
        ELSE IF ~last_qty.some THEN None
        ELSE Some(Fill(order_id.v, cl_ord_id.v, last_px.v, last_qty.v, transact_time))

(***************************************************************************)
(* Callers of parse: the byte sequences handed to it                       *)
(***************************************************************************)
MaxRaw  == 4
MaxBody == 2

\* SOH, '=', '0', '8', '9', 'A' and a byte that is never valid UTF-8.
RawBytes == {SOH, EQ, 48, 56, 57, 65, 255}

\* "35=A", "49=B", "8=X", "9=1", "AB" (no '='), "49=" with a non-UTF-8 value.
BodySegments ==
    {<<51, 53, EQ, 65>>, <<52, 57, EQ, 66>>, <<56, EQ, 88>>, <<57, EQ, 49>>,
     <<65, 66>>, <<52, 57, EQ, 255>>}

\* Nothing or one SOH before the first segment; one or two SOH after it.
Leads == {<<>>, <<SOH>>}
Gaps  == {<<SOH>>, <<SOH, SOH>>}

\* "8=F"
FirstSegment == <<56, EQ, 70>>

\* The declared length is the length of the bytes framed plus one of these.
Deltas == {0, 1, 2, 7}

\* Values of the 9= field that are no length: empty, "1A", and 2^64, one
\* more than usize::MAX.
LengthTexts ==
    {<<>>, <<49, 65>>,
     <<49, 56, 52, 52, 54, 55, 52, 52, 48, 55, 51, 55, 48, 57, 53, 53, 49, 54, 49, 54>>}

SealKinds == {"valid", "wrong", "folded", "self"}

\* Segments of every shape split_field tells apart: "8=X", "35=A",
\* "A" 0xFF (no '=', not UTF-8), "=A" (no number), "4A=1" (a non-digit),
\* "4294967296=A" (u32::MAX + 1), "10=000" and "10=A" (checksum fields);
\* and fields that repeat a number: "35=B", "49=B", "49=C".
ShapeSegments ==
    {<<56, EQ, 88>>, <<51, 53, EQ, 65>>, <<65, 255>>, <<EQ, 65>>, <<52, 65, EQ, 49>>,
     <<52, 50, 57, 52, 57, 54, 55, 50, 57, 54, EQ, 65>>, <<49, 48, EQ, 48, 48, 48>>,
     <<49, 48, EQ, 65>>, <<51, 53, EQ, 66>>, <<52, 57, EQ, 66>>, <<52, 57, EQ, 67>>}

\* The declared length is right or one too large.
ShapeDeltas == {0, 1}

\* "35=A" and "49=B", the body of a well-formed message.
FoldSegments == {<<51, 53, EQ, 65>>, <<52, 57, EQ, 66>>}

\* Every number that three decimal digits denote.
Declarable == 0..999

\* "49=ABC" SOH: a field of exactly checksum_field_len bytes.
TailSegments == {<<52, 57, EQ, 65, 66, 67, SOH>>}

\* "10=" ddd SOH, the trailer as build writes it.
trailer(v) == <<49, 48, EQ>> \o format_03(v) \o <<SOH>>

RECURSIVE byte_sum(_, _)
byte_sum(s, i) == IF i > Len(s) THEN 0 ELSE s[i] + byte_sum(s, i + 1)

\* The values v whose trailer, appended to prefix, declares the checksum of
\* prefix and trailer together.
SelfConsistent(prefix) ==
    LET base == compute_checksum(prefix)
    IN  {v \in 0..999 : (base + byte_sum(trailer(v), 1)) % 256 = v % 256}

Min(S) == CHOOSE x \in S : \A y \in S : x <= y

(***************************************************************************)
(* Callers of FixBuilder and FixSession: their arguments                   *)
(***************************************************************************)
MaxFields == 2
MaxSeq    == 3

\* "FIX" and the empty version; "A" and the empty message type.
Versions == {<<70, 73, 88>>, <<>>}
MsgTypes == {<<65>>, <<>>}

\* Field numbers staged with field(): a business one, three of those the
\* codec manages itself, and u32::MAX.
StagedTags == {SENDER_COMP_ID, BEGIN_STRING, CHECKSUM, MSG_TYPE, U32_MAX}

\* "A" and the empty value: ASCII, without SOH and '='.
StagedValues == {<<65>>, <<>>}

\* Field numbers the codec does not manage itself.
FramingTags == {SENDER_COMP_ID, TARGET_COMP_ID}

\* Values with and without the bytes of the framing: "A", "A=B", "=",
\* SOH, "A" SOH "B" and "A" SOH "56=B".
FramingValues ==
    {<<65>>, <<65, EQ, 66>>, <<EQ>>, <<SOH>>, <<65, SOH, 66>>,
     <<65, SOH, 53, 54, EQ, 66>>}

\* -1 as i64 (all bits set); u64::MAX.
I64Values == {U64_MAX}
U64Values == {U64_MAX}

\* The digits written over a checksum digit: '0' and '9'.
CorruptDigits == {48, 57}

\* "AL", "BR", "FIX.4.4"
Senders         == {<<65, 76>>}
Targets         == {<<66, 82>>}
SessionVersions == {<<70, 73, 88, 46, 52, 46, 52>>}

\* The variants of alice_ledger::Side, OrderType and TimeInForce, as the
\* exhaustive matches of convert.rs list them.
Sides        == {"Bid", "Ask"}
OrderTypes   == {"Market", "Limit", "StopLimit"}
TimesInForce == {"GTC", "IOC", "FOK", "GTD"}

\* alice_ledger::Order, the fields build_new_order reads.
Orders ==
    {[id |-> U64(100), side |-> "Bid", order_type |-> "Limit", price |-> U64(60000),
      quantity |-> U64(25), time_in_force |-> "GTC"],
     [id |-> U64_MAX, side |-> "Ask", order_type |-> "StopLimit", price |-> U64_MAX,
      quantity |-> U64(0), time_in_force |-> "GTD"]}

\* "BTC", and "B" SOH "C": the symbol is any &str of the caller.
Symbols == {<<66, 84, 67>>, <<66, SOH, 67>>}

BuildOps == {"build_logon", "build_logout", "build_heartbeat", "build_new_order"}

\* The inputs of compute_checksum as runs of one byte repeated: once, 256
\* times, or 2^23 - 1 times (three such runs of 0xFF sum to more than 2^32).
MaxRuns   == 3
RunBytes  == {0, 1, 65, 255}
RunCounts == {1, 256, 2^23 - 1}

\* Callers of FixMessage: the tags and the values "A", "B" they set.
MessageTags   == {SYMBOL, SIDE, ORD_TYPE}
MessageValues == {<<65>>, <<66>>}
Copies        == {"original", "clone"}

\* Callers of parse_execution_report: the tags it reads, set to "5", "-5"
\* or "x", or left out.
ReportTags   == {EXEC_ID, ORDER_ID, CL_ORD_ID, LAST_PX, LAST_QTY, TRANSACT_TIME}
ReportValues == {<<53>>, <<45, 53>>, <<120>>}

VARIABLES
    input,            \* the bytes handed to parse
    result,           \* what parse returned
    phase,            \* how far the caller has assembled input
    b_begin_string,   \* FixBuilder.begin_string
    b_msg_type,       \* FixBuilder.msg_type
    b_fields,         \* FixBuilder.fields
    b_phase,          \* "none", "staging", "built" (out is build() of the
                      \* builder as it is), "decoded" (and decoded is parse(out)),
                      \* "corrupted" (a checksum digit of out was replaced),
                      \* "corrupt_decoded" (and decoded is parse(out))
    out,              \* the bytes the last build() returned, as the caller holds them
    decoded,          \* what parse returned for out; the caller drops it
                      \* when it calls the builder again
    sender_comp_id,   \* FixSession.sender_comp_id
    target_comp_id,   \* FixSession.target_comp_id
    begin_string,     \* FixSession.begin_string
    outgoing_seq,     \* FixSession.outgoing_seq
    incoming_seq,     \* FixSession.incoming_seq
    state,            \* FixSession.state
    op,               \* the last operation called on the session
    ret_seq,          \* the ordinal the last outbound operation consumed
    ret_ok,           \* what the last validate_incoming_seq returned
    presented,        \* its argument
    msg,              \* the bytes the last build operation returned
    arg_symbol,       \* the symbol passed to it, if it was build_new_order
    builds,           \* the number of build operations called so far
    direct,           \* the number of direct next_outgoing_seq calls so far
    accepted,         \* the arguments validate_incoming_seq accepted, in order
    rejected,         \* validate_incoming_seq has returned false at least once
    cs_input,         \* the bytes compute_checksum's loop has consumed, as runs
    cs_sum,           \* its accumulator `sum`
    cs_ret,           \* what it returned; -1 while it is in its loop
    fm_original,      \* a FixMessage
    fm_clone,         \* Some(its clone), once it was cloned
    fm_op,            \* the last operation on either, with its arguments
    fm_fill,          \* what parse_execution_report returned for fm_original
    it_remaining,     \* FieldIter.remaining
    it_yielded,       \* the items next() has returned so far, in order
    it_passes,        \* the passes next() has made through its loop so far
    it_state          \* "none", "live", "done" (next() has returned None)

parse_vars   == <<input, result, phase>>
builder_vars == <<b_begin_string, b_msg_type, b_fields, b_phase, out, decoded>>
identity     == <<sender_comp_id, target_comp_id, begin_string>>
outbound     == <<outgoing_seq, state, ret_seq, msg, arg_symbol, builds, direct>>
inbound      == <<incoming_seq, ret_ok, presented, accepted, rejected>>
session_vars == <<identity, outbound, inbound, op>>
checksum_vars == <<cs_input, cs_sum, cs_ret>>
message_vars == <<fm_original, fm_clone, fm_op, fm_fill>>
iter_vars    == <<it_remaining, it_yielded, it_passes, it_state>>
vars         ==
    <<parse_vars, builder_vars, session_vars, checksum_vars, message_vars, iter_vars>>

InitParse ==
    /\ input = <<>>
    /\ result = Err("NotCalled")
    /\ phase = "empty"

InitBuilder ==
    /\ b_begin_string = <<>>
    /\ b_msg_type = <<>>
    /\ b_fields = <<>>
    /\ b_phase = "none"
    /\ out = <<>>
    /\ decoded = Err("NotCalled")

\* FixSession::new
SessionWith(outgoing, last_op, last_seq) ==
    /\ sender_comp_id \in Senders
    /\ target_comp_id \in Targets
    /\ begin_string \in SessionVersions
    /\ outgoing_seq = outgoing
    /\ incoming_seq = U64(1)
    /\ state = "Disconnected"
    /\ op = last_op
    /\ ret_seq = last_seq
    /\ ret_ok = FALSE
    /\ presented = U64(0)
    /\ msg = <<>>
    /\ arg_symbol = <<>>
    /\ builds = 0
    /\ direct = 0
    /\ accepted = <<>>
    /\ rejected = FALSE

\* FixSession::new
InitSession == SessionWith(U64(1), "new", U64(0))

\* A session that has handed out every ordinal below u64::MAX - 1 through
\* next_outgoing_seq; builds and direct count the calls from here on.
LateSeq == <<LimbBase - 2, LimbBase - 1, LimbBase - 1, LimbBase - 1>>
InitLateSession ==
    SessionWith(LateSeq, "next_outgoing_seq",
                <<LimbBase - 3, LimbBase - 1, LimbBase - 1, LimbBase - 1>>)

\* let mut sum: u32 = 0;
InitChecksum ==
    /\ cs_input = <<>>
    /\ cs_sum = U32(0)
    /\ cs_ret = -1

MessageOp(name, on, t, value) == [name |-> name, on |-> on, tag |-> t, value |-> value]

\* FixMessage::new("FIX.4.4", "D")
InitMessage ==
    /\ fm_original \in {FixMessage_new(v, <<68>>) : v \in SessionVersions}
    /\ fm_clone = None
    /\ fm_op = MessageOp("new", "original", U32(0), <<>>)
    /\ fm_fill = None

InitIter ==
    /\ it_remaining = <<>>
    /\ it_yielded = <<>>
    /\ it_passes = 0
    /\ it_state = "none"

Init ==
    InitParse /\ InitBuilder /\ InitSession /\ InitChecksum /\ InitMessage /\ InitIter

InitLate ==
    InitParse /\ InitBuilder /\ InitLateSession /\ InitChecksum /\ InitMessage /\ InitIter

\* A caller writing arbitrary bytes.
PushByte(b) ==
    /\ phase \in {"empty", "raw"}
    /\ Len(input) < MaxRaw
    /\ input' = Append(input, b)
    /\ phase' = "raw"
    /\ UNCHANGED <<result, builder_vars, session_vars, checksum_vars, message_vars, iter_vars>>

\* A caller writing body segments, each with its SOH ...
PushSegment(seg) ==
    /\ phase \in {"empty", "body"}
    /\ Len(SelectSeq(input, LAMBDA b : b = SOH)) < MaxBody
    /\ input' = input \o seg \o <<SOH>>
    /\ phase' = "body"
    /\ UNCHANGED <<result, builder_vars, session_vars, checksum_vars, message_vars, iter_vars>>

\* ... then the two header segments in front of them ...
Frame(lead, gap, delta) ==
    /\ phase \in {"empty", "body"}
    /\ input' = lead \o FirstSegment \o gap
                    \o append_field(BODY_LENGTH, usize_to_string(Len(input) + delta))
                    \o input
    /\ phase' = "framed"
    /\ UNCHANGED <<result, builder_vars, session_vars, checksum_vars, message_vars, iter_vars>>

\* ... or the header with a 9= field whose value is no length ...
FrameWith(text) ==
    /\ phase \in {"empty", "body"}
    /\ input' = FirstSegment \o <<SOH>> \o append_field(BODY_LENGTH, text) \o input
    /\ phase' = "framed"
    /\ UNCHANGED <<result, builder_vars, session_vars, checksum_vars, message_vars, iter_vars>>

\* ... then a checksum field ...
Seal(kind) ==
    /\ phase = "framed"
    /\ LET chk == compute_checksum(input)
       IN  \/ /\ kind = "valid"
              /\ input' = input \o trailer(chk)
           \/ /\ kind = "wrong"
              /\ input' = input \o trailer((chk + 1) % 256)
           \/ /\ kind = "folded"
              /\ input' = input \o trailer(chk + 256)
           \/ /\ kind = "self"
              /\ SelfConsistent(input) # {}
              /\ input' = input \o trailer(Min(SelfConsistent(input)))
    /\ phase' = "sealed"
    /\ UNCHANGED <<result, builder_vars, session_vars, checksum_vars, message_vars, iter_vars>>

\* ... and possibly one more field after it.
PushTail(seg) ==
    /\ phase = "sealed"
    /\ input' = input \o seg
    /\ phase' = "tailed"
    /\ UNCHANGED <<result, builder_vars, session_vars, checksum_vars, message_vars, iter_vars>>

Parse ==
    /\ phase # "parsed"
    /\ result' = parse(input)
    /\ phase' = "parsed"
    /\ UNCHANGED <<input, builder_vars, session_vars, checksum_vars, message_vars, iter_vars>>

NextParse ==
    \/ \E b \in RawBytes : PushByte(b)
    \/ \E seg \in BodySegments : PushSegment(seg)
    \/ \E lead \in Leads, gap \in Gaps, delta \in Deltas : Frame(lead, gap, delta)
    \/ \E text \in LengthTexts : FrameWith(text)
    \/ \E kind \in SealKinds : Seal(kind)
    \/ \E seg \in TailSegments : PushTail(seg)
    \/ Parse

SpecParse == Init /\ [][NextParse]_vars

\* Callers whose segments have every shape, in a plainly framed message.
NextShape ==
    \/ \E seg \in ShapeSegments : PushSegment(seg)
    \/ \E delta \in ShapeDeltas : Frame(<<>>, <<SOH>>, delta)
    \/ \E kind \in SealKinds : Seal(kind)
    \/ Parse

SpecShape == Init /\ [][NextShape]_vars

\* ... or a checksum field declaring any number of three digits.
SealDeclaring(v) ==
    /\ phase = "framed"
    /\ input' = input \o trailer(v)
    /\ phase' = "sealed"
    /\ UNCHANGED <<result, builder_vars, session_vars, checksum_vars, message_vars, iter_vars>>

\* Callers of parse whose message is well formed up to the declared checksum.
NextFold ==
    \/ \E seg \in FoldSegments : PushSegment(seg)
    \/ Frame(<<>>, <<SOH>>, 0)
    \/ \E v \in Declarable : SealDeclaring(v)
    \/ Parse

SpecFold == Init /\ [][NextFold]_vars

\* FixBuilder::new
FixBuilder_new(version, msg_type) ==
    /\ b_phase = "none"
    /\ b_begin_string' = version
    /\ b_msg_type' = msg_type
    /\ b_fields' = <<>>
    /\ b_phase' = "staging"
    /\ UNCHANGED <<out, decoded, parse_vars, session_vars, checksum_vars, message_vars, iter_vars>>

\* A caller that has overwritten the bytes it got is done with the builder.
BuilderInUse == b_phase \in {"staging", "built", "decoded"}

\* self.fields.push((tag, value))
Stage(tag, value) ==
    /\ BuilderInUse
    /\ Len(b_fields) < MaxFields
    /\ b_fields' = Append(b_fields, <<tag, value>>)
    /\ b_phase' = "staging"
    /\ decoded' = Err("NotCalled")
    /\ UNCHANGED <<b_begin_string, b_msg_type, out, parse_vars, session_vars,
                   checksum_vars, message_vars, iter_vars>>

field(tag, value) == Stage(tag, value)

field_i64(tag, value) == Stage(tag, i64_to_string(value))

field_u64(tag, value) == Stage(tag, to_string(value))

\* FixBuilder::build
Build ==
    /\ BuilderInUse
    /\ out' = build(b_begin_string, b_msg_type, b_fields)
    /\ b_fields' = fields_after_build(b_fields)
    /\ b_phase' = "built"
    /\ decoded' = Err("NotCalled")
    /\ UNCHANGED <<b_begin_string, b_msg_type, parse_vars, session_vars,
                   checksum_vars, message_vars, iter_vars>>

\* The caller overwriting one of the three checksum digits of the bytes
\* build returned (which = 1, 2, 3 from the left) with another digit.
Corrupt(which, digit) ==
    /\ b_phase = "built"
    /\ out[Len(out) - 4 + which] # digit
    /\ out' = [out EXCEPT ![Len(out) - 4 + which] = digit]
    /\ b_phase' = "corrupted"
    /\ UNCHANGED <<b_begin_string, b_msg_type, b_fields, decoded, parse_vars, session_vars,
                   checksum_vars, message_vars, iter_vars>>

\* parse(&out)
Decode ==
    /\ b_phase \in {"built", "corrupted"}
    /\ decoded' = parse(out)
    /\ b_phase' = IF b_phase = "built" THEN "decoded" ELSE "corrupt_decoded"
    /\ UNCHANGED <<b_begin_string, b_msg_type, b_fields, out, parse_vars, session_vars,
                   checksum_vars, message_vars, iter_vars>>

NextBuilder ==
    \/ \E version \in Versions, msg_type \in MsgTypes : FixBuilder_new(version, msg_type)
    \/ \E tag \in StagedTags, value \in StagedValues : field(tag, value)
    \/ \E value \in I64Values : field_i64(MSG_SEQ_NUM, value)
    \/ \E value \in U64Values : field_u64(MSG_SEQ_NUM, value)
    \/ Build
    \/ \E which \in 1..3, digit \in CorruptDigits : Corrupt(which, digit)
    \/ Decode

SpecBuilder == Init /\ [][NextBuilder]_vars

\* Callers staging values that hold SOH or '=' under ordinary field numbers.
NextFraming ==
    \/ \E version \in Versions, msg_type \in MsgTypes : FixBuilder_new(version, msg_type)
    \/ \E tag \in FramingTags, value \in FramingValues : field(tag, value)
    \/ Build
    \/ Decode

SpecFraming == Init /\ [][NextFraming]_vars

\* for &b in bytes { sum = sum.wrapping_add(b as u32); } over a run of
\* count copies of b: count wrapping additions of b, which is one wrapping
\* addition of count * b (below 2^32 for every run of the model).
Feed(b, count) ==
    /\ cs_ret = -1
    /\ Len(cs_input) < MaxRuns
    /\ cs_input' = Append(cs_input, [byte |-> b, count |-> count])
    /\ cs_sum' = wrapping_add(cs_sum, U32(count * b))
    /\ UNCHANGED <<cs_ret, parse_vars, builder_vars, session_vars, message_vars, iter_vars>>

\* (sum & 0xFF) as u8
Return ==
    /\ cs_ret = -1
    /\ cs_ret' = low_byte(cs_sum)
    /\ UNCHANGED <<cs_input, cs_sum, parse_vars, builder_vars, session_vars, message_vars,
                   iter_vars>>

NextChecksum ==
    \/ \E b \in RunBytes, count \in RunCounts : Feed(b, count)
    \/ Return

SpecChecksum == Init /\ [][NextChecksum]_vars

\* The counter is below the bound on the number of ordinals handed out, or
\* it is one of the last ordinals of a u64.
CanSend ==
    IF WIsSmall(outgoing_seq) THEN WToNat(outgoing_seq) <= MaxSeq
    ELSE outgoing_seq \in {LateSeq, U64_MAX}

\* The shape the sending methods share: n is what next_outgoing_seq returned
\* and left in the counter, bytes the message built with the ordinal n.seq.
Outbound(name, n, next_state, bytes, sym, is_build) ==
    /\ CanSend
    /\ outgoing_seq' = n.outgoing_seq
    /\ ret_seq' = n.seq
    /\ state' = next_state
    /\ msg' = bytes
    /\ arg_symbol' = sym
    /\ builds' = IF is_build THEN builds + 1 ELSE builds
    /\ direct' = IF is_build THEN direct ELSE direct + 1
    /\ op' = name
    /\ UNCHANGED <<identity, inbound, parse_vars, builder_vars, checksum_vars, message_vars,
                   iter_vars>>

\* pub fn next_outgoing_seq, called directly
CallNextOutgoingSeq ==
    Outbound("next_outgoing_seq", next_outgoing_seq(outgoing_seq), state, msg, arg_symbol,
             FALSE)

AdminBytes(msg_type, seq) ==
    build_admin(begin_string, sender_comp_id, target_comp_id, msg_type, seq)

\* "A"
build_logon ==
    LET n == next_outgoing_seq(outgoing_seq)
    IN  Outbound("build_logon", n, after_build_logon(state), AdminBytes(<<65>>, n.seq),
                 <<>>, TRUE)

\* "5"
build_logout ==
    LET n == next_outgoing_seq(outgoing_seq)
    IN  Outbound("build_logout", n, after_build_logout(state), AdminBytes(<<53>>, n.seq),
                 <<>>, TRUE)

\* "0"
build_heartbeat ==
    LET n == next_outgoing_seq(outgoing_seq)
    IN  Outbound("build_heartbeat", n, after_build_heartbeat(state),
                 AdminBytes(<<48>>, n.seq), <<>>, TRUE)

build_new_order(order, symbol) ==
    LET n == next_outgoing_seq(outgoing_seq)
    IN  Outbound("build_new_order", n, after_build_new_order(state),
                 new_order_bytes(begin_string, sender_comp_id, target_comp_id, n.seq,
                                 order, symbol),
                 symbol, TRUE)

CallValidateIncomingSeq(seq) ==
    LET r == validate_incoming_seq(incoming_seq, seq)
        o == outbound_after_validate(outgoing_seq, state, r.ok)
    IN  /\ WIsSmall(incoming_seq) /\ WToNat(incoming_seq) <= MaxSeq
        /\ incoming_seq' = r.incoming_seq
        /\ ret_ok' = r.ok
        /\ presented' = seq
        /\ accepted' = IF r.ok THEN Append(accepted, seq) ELSE accepted
        /\ rejected' = (rejected \/ ~r.ok)
        /\ outgoing_seq' = o.outgoing_seq
        /\ state' = o.state
        /\ op' = "validate_incoming_seq"
        /\ UNCHANGED <<identity, ret_seq, msg, arg_symbol, builds, direct,
                       parse_vars, builder_vars, checksum_vars, message_vars, iter_vars>>

NextSession ==
    \/ CallNextOutgoingSeq
    \/ build_logon
    \/ build_logout
    \/ build_heartbeat
    \/ \E order \in Orders, symbol \in Symbols : build_new_order(order, symbol)
    \/ \E n \in 0..(MaxSeq + 2) : CallValidateIncomingSeq(U64(n))

SpecSession == Init /\ [][NextSession]_vars

\* on.set(t, value), on being the original or its clone
Set(on, t, value) ==
    /\ on = "clone" => fm_clone.some
    /\ fm_original' = IF on = "original" THEN set(fm_original, t, value) ELSE fm_original
    /\ fm_clone' = IF on = "clone" THEN Some(set(fm_clone.v, t, value)) ELSE fm_clone
    /\ fm_op' = MessageOp("set", on, t, value)
    /\ fm_fill' = None
    /\ UNCHANGED <<parse_vars, builder_vars, session_vars, checksum_vars, iter_vars>>

\* let clone = original.clone()
Clone ==
    /\ fm_clone' = Some(clone(fm_original))
    /\ fm_op' = MessageOp("clone", "original", U32(0), <<>>)
    /\ UNCHANGED <<fm_original, fm_fill, parse_vars, builder_vars, session_vars,
                   checksum_vars, iter_vars>>

NextMessage ==
    \/ \E on \in Copies, t \in MessageTags, value \in MessageValues : Set(on, t, value)
    \/ Clone

SpecMessage == Init /\ [][NextMessage]_vars

\* parse_execution_report(&original)
ParseExecutionReport ==
    /\ fm_fill' = parse_execution_report(fm_original)
    /\ fm_op' = MessageOp("parse_execution_report", "original", U32(0), <<>>)
    /\ UNCHANGED <<fm_original, fm_clone, parse_vars, builder_vars, session_vars,
                   checksum_vars, iter_vars>>

NextReport ==
    \/ \E t \in ReportTags, value \in ReportValues : Set("original", t, value)
    \/ ParseExecutionReport

SpecReport == Init /\ [][NextReport]_vars

\* self.outgoing_seq += 1 at u64::MAX in a build with overflow checks: the
\* call panics before it writes the counter or builds anything.
PanicOnOverflow ==
    /\ outgoing_seq = U64_MAX
    /\ op # "panic"
    /\ op' = "panic"
    /\ UNCHANGED <<identity, outbound, inbound, parse_vars, builder_vars,
                   checksum_vars, message_vars, iter_vars>>

\* The outbound operations of a session near the end of its ordinals.
NextLate ==
    \/ CallNextOutgoingSeq
    \/ build_logon
    \/ build_logout
    \/ build_heartbeat
    \/ \E order \in Orders, symbol \in Symbols : build_new_order(order, symbol)
    \/ PanicOnOverflow

SpecLate == InitLate /\ [][NextLate]_vars

\* FieldIter::new(input)
FieldIter_new ==
    /\ phase \in {"empty", "raw"}
    /\ it_state = "none"
    /\ it_remaining' = input
    /\ it_state' = "live"
    /\ phase' = "iterating"
    /\ UNCHANGED <<input, result, it_yielded, it_passes, builder_vars, session_vars,
                   checksum_vars, message_vars>>

\* iter.next()
CallNext ==
    /\ it_state = "live"
    /\ LET r == FieldIter_next(it_remaining)
       IN  /\ it_remaining' = r.remaining
           /\ it_yielded' = IF r.some THEN Append(it_yielded, r.field) ELSE it_yielded
           /\ it_state' = IF r.some THEN "live" ELSE "done"
    /\ it_passes' = it_passes + FieldIter_passes(it_remaining)
    /\ UNCHANGED <<parse_vars, builder_vars, session_vars, checksum_vars, message_vars>>

\* A caller draining the iterator over arbitrary bytes.
NextIter ==
    \/ \E b \in RawBytes : PushByte(b)
    \/ FieldIter_new
    \/ CallNext

SpecIter == Init /\ [][NextIter]_vars

(***************************************************************************)
(* The wire format as the claims read it, written without the parser: the  *)
(* segments of a byte sequence are its maximal runs of non-SOH bytes.      *)
(***************************************************************************)
RECURSIVE RunEnd(_, _)
RunEnd(s, i) == IF i < Len(s) /\ s[i + 1] # SOH THEN RunEnd(s, i + 1) ELSE i

\* The runs as [from, to], 1-based and inclusive, in input order.
RECURSIVE Runs(_, _)
Runs(s, i) ==
    IF i > Len(s) THEN <<>>
    ELSE IF s[i] = SOH THEN Runs(s, i + 1)
    ELSE <<[from |-> i, to |-> RunEnd(s, i)]>> \o Runs(s, RunEnd(s, i) + 1)

Segment(s, r) == SubSeq(s, r.from, r.to)

\* The value of a string of at most 9 decimal digits; -1 for anything else.
RECURSIVE DecimalValue(_)
DecimalValue(d) ==
    IF d = <<>> THEN 0
    ELSE LET rest == DecimalValue(SubSeq(d, 1, Len(d) - 1))
             last == d[Len(d)]
         IN  IF rest = -1 \/ last \notin 48..57 THEN -1 ELSE rest * 10 + (last - 48)

Decimal(d) == IF d = <<>> \/ Len(d) > 9 THEN -1 ELSE DecimalValue(d)

HasEq(seg) == \E i \in 1..Len(seg) : seg[i] = EQ
FirstEq(seg) == Min({i \in 1..Len(seg) : seg[i] = EQ})

\* The field number of a segment "<number>=<value>"; -1 when it has none.
FieldNumber(seg) == IF HasEq(seg) THEN Decimal(SubSeq(seg, 1, FirstEq(seg) - 1)) ELSE -1
FieldValue(seg) == SubSeq(seg, FirstEq(seg) + 1, Len(seg))

\* The value of the first segment of bytes that carries field number n.
TagValue(bytes, n) ==
    LET runs == Runs(bytes, 1)
        hits == {i \in 1..Len(runs) : FieldNumber(Segment(bytes, runs[i])) = n}
    IN  FieldValue(Segment(bytes, runs[Min(hits)]))

HasTag(bytes, n) ==
    \E i \in 1..Len(Runs(bytes, 1)) : FieldNumber(Segment(bytes, Runs(bytes, 1)[i])) = n

(***************************************************************************)
(* Round trip (builder.rs, parser.rs)                                      *)
(***************************************************************************)
StagedNumbers == {b_fields[i][1] : i \in 1..Len(b_fields)}

\* The field numbers the codec manages itself: version, declared length,
\* checksum and message type.
StructuralNumbers == {BEGIN_STRING, BODY_LENGTH, CHECKSUM, MSG_TYPE}

Max(S) == CHOOSE x \in S : \A y \in S : y <= x

\* The value of the last staging of field number t.
LastStaged(t) == b_fields[Max({i \in 1..Len(b_fields) : b_fields[i][1] = t})][2]

\* parse(build()) is a message with the builder's version and message type
\* whose mapping has exactly the staged field numbers, each with the value
\* staged for it (the last one, when it was staged more than once).
RoundTrips ==
    /\ decoded.kind = "Ok"
    /\ decoded.begin_string = b_begin_string
    /\ decoded.msg_type = b_msg_type
    /\ DOMAIN decoded.fields = StagedNumbers
    /\ \A t \in StagedNumbers : decoded.fields[t] = LastStaged(t)

\* C1 as stated: the round trip holds for arbitrary staged field numbers.
C1_RoundTripAnyNumber == b_phase = "decoded" => RoundTrips

\* C1, amended: the round trip holds when none of the field numbers the
\* builder manages itself (8, 9, 10, 35) is among the staged field numbers.
C1_RoundTrip ==
    (b_phase = "decoded" /\ StagedNumbers \cap StructuralNumbers = {}) => RoundTrips

\* C1 witness: two fields staged, one of them under u32::MAX, built, parsed
\* and found again.
C1_Witness ==
    /\ b_phase = "decoded"
    /\ Len(b_fields) >= 2
    /\ U32_MAX \in StagedNumbers
    /\ StagedNumbers \cap StructuralNumbers = {}
    /\ RoundTrips

(***************************************************************************)
(* Session (session.rs)                                                    *)
(***************************************************************************)
\* C3: on a session on which only build operations send (no direct call of
\* next_outgoing_seq), the k-th build returns a message whose tag 34 is k,
\* the ordinal it consumed, and leaves the counter at k + 1.
C3_OutboundOrdinals ==
    direct = 0 =>
        /\ outgoing_seq = U64(builds + 1)
        /\ op \in BuildOps =>
               /\ ret_seq = U64(builds)
               /\ HasTag(msg, 34)
               /\ TagValue(msg, 34) = usize_to_string(builds)

\* C3 witness: the third build of a session, a logout after other builds.
C3_Witness ==
    /\ direct = 0
    /\ builds = 3
    /\ op = "build_logout"
    /\ TagValue(msg, 34) = <<51>>

\* C4: validate_incoming_seq(seq) returns true exactly when seq is the
\* expected ordinal; the counter then advances by one, and is unchanged
\* when it returns false.
C4_ValidateIncoming ==
    [][op' = "validate_incoming_seq" =>
          /\ ret_ok' = (presented' = incoming_seq)
          /\ incoming_seq' = IF presented' = incoming_seq
                             THEN U64(WToNat(incoming_seq) + 1)
                             ELSE incoming_seq]_vars

\* C4 witness: a call with an ordinal below the expected one was rejected
\* after others were accepted.
C4_Witness ==
    /\ op = "validate_incoming_seq"
    /\ ~ret_ok
    /\ Len(accepted) >= 1
    /\ WToNat(presented) < WToNat(incoming_seq)

\* C5: the accepted ordinals are 1, 2, ..., n in that order, the expected
\* ordinal is n + 1, and presenting it succeeds whatever was rejected before.
C5_StrictInbound ==
    /\ accepted = [i \in 1..Len(accepted) |-> U64(i)]
    /\ incoming_seq = U64(Len(accepted) + 1)
    /\ validate_incoming_seq(incoming_seq, incoming_seq).ok

\* C5 witness: an ordinal was accepted after a rejection, as the second or
\* a later one.
C5_Witness ==
    /\ op = "validate_incoming_seq"
    /\ ret_ok
    /\ rejected
    /\ Len(accepted) >= 2

\* C6: a fresh session is Disconnected; build_logon leaves LogonSent,
\* build_logout leaves LogoutSent, build_heartbeat and build_new_order leave
\* the state as it was.
C6_Transitions ==
    /\ state = "Disconnected"
    /\ [][/\ op' = "build_logon" => state' = "LogonSent"
          /\ op' = "build_logout" => state' = "LogoutSent"
          /\ op' \in {"build_heartbeat", "build_new_order"} => state' = state]_vars

\* C6 witness: a heartbeat built after a logout has left the state
\* LogoutSent.
C6_Witness ==
    /\ op = "build_heartbeat"
    /\ state = "LogoutSent"
    /\ builds >= 2

(***************************************************************************)
(* Decoding (parser.rs)                                                    *)
(***************************************************************************)
Parsed == phase = "parsed"
Accepted == Parsed /\ result.kind = "Ok"

\* The first segment is a tag-8 field and the second a tag-9 field whose
\* value is a decimal number.
HasHeader ==
    LET runs == Runs(input, 1)
    IN  /\ Len(runs) >= 2
        /\ FieldNumber(Segment(input, runs[1])) = 8
        /\ FieldNumber(Segment(input, runs[2])) = 9
        /\ Decimal(FieldValue(Segment(input, runs[2]))) # -1

DeclaredLength == Decimal(FieldValue(Segment(input, Runs(input, 1)[2])))

\* The number of bytes up to and including the SOH that ends the second
\* segment: the offset of the first byte of the body.
BodyStart == Runs(input, 1)[2].to + 1

\* The number of bytes between the body's start and the 7-byte trailer.
MeasuredLength == Len(input) - checksum_field_len - BodyStart

\* C2: parse returns a FixMessage or one of the seven ParseError variants for
\* every byte sequence; no input makes it panic (a slice out of bounds, an
\* unsigned subtraction below zero).
C2_ParseTotal ==
    Parsed =>
        /\ result.kind \in {"Ok"} \cup ParseErrorKinds
        /\ result.kind # "Panic"
        /\ (result.kind = "InvalidChecksum" =>
                result.expected \in 0..255 /\ result.actual \in 0..255)

\* C2 witness: parse has returned for an input that ends before its header
\* and a trailer fit, where the length check's subtraction is guarded.
C2_Witness ==
    /\ Parsed
    /\ HasHeader
    /\ MeasuredLength < 0
    /\ result.kind = "MissingBodyLength"

\* C7: the field mapping of every message parse returns contains none of the
\* field numbers 8, 9, 10 and 35.
C7_NoStructuralFields ==
    Accepted => (DOMAIN result.fields) \cap StructuralNumbers = {}

\* C8: with a tag-8 first segment and a tag-9 second segment declaring d, an
\* input too short for the body, or whose measured body length differs from
\* d, fails with MissingBodyLength.
C8_LengthIntegrity ==
    (Parsed /\ HasHeader /\ (MeasuredLength < 0 \/ MeasuredLength # DeclaredLength))
        => result.kind = "MissingBodyLength"

\* C9: whenever parse succeeds, the declared length is the number of bytes
\* after the SOH ending the tag-9 segment and before the final 7 bytes.
C9_DeclaredIsMeasured ==
    Accepted => (HasHeader /\ DeclaredLength = MeasuredLength)

\* C10: whenever parse succeeds, the final segment of the input is the
\* tag-10 field.
C10_ChecksumLast ==
    Accepted =>
        LET runs == Runs(input, 1)
        IN  FieldNumber(Segment(input, runs[Len(runs)])) = 10

(***************************************************************************)
(* Encoding and corruption (builder.rs, parser.rs)                         *)
(***************************************************************************)
\* The three digits of the trailer of the bytes the caller holds, and the
\* bytes before the 7-byte trailer.
TrailerDigits == SubSeq(out, Len(out) - 3, Len(out) - 1)
BeforeTrailer == SubSeq(out, 1, Len(out) - checksum_field_len)
SumBeforeTrailer == byte_sum(BeforeTrailer, 1) % 256

CorruptDecoded == b_phase = "corrupt_decoded"

IsPrefix(p, s) == Len(p) <= Len(s) /\ SubSeq(s, 1, Len(p)) = p

Built == b_phase = "built"

\* "8=<version>" SOH "9=", the bytes in front of the declared length.
BeforeLength == <<56, EQ>> \o b_begin_string \o <<SOH, 57, EQ>>

\* The position in out of the SOH that ends the segment the declared
\* length is in: the length of the "8=<version>" SOH "9=<n>" SOH prefix.
PrefixLength ==
    Min({i \in (Len(BeforeLength) + 1)..Len(out) : out[i] = SOH})

LengthDigits == SubSeq(out, Len(BeforeLength) + 1, PrefixLength - 1)

\* The bytes after the prefix and before the 7-byte trailer.
BodyBytes == SubSeq(out, PrefixLength + 1, Len(out) - checksum_field_len)

\* C12: the output of build starts with "8=<version>" SOH "9=<n>" SOH, n is
\* the number of bytes between that prefix and the 7-byte trailer, and those
\* bytes begin with "35=<msg_type>" SOH.
C12_BodyLength ==
    Built =>
        /\ IsPrefix(BeforeLength, out)
        /\ Decimal(LengthDigits) = Len(out) - checksum_field_len - PrefixLength
        /\ IsPrefix(<<51, 53, EQ>> \o b_msg_type \o <<SOH>>, BodyBytes)

\* C12 witness: a message of two staged fields whose body is more than 25
\* bytes long.
C12_Witness ==
    /\ Built
    /\ Len(b_fields) = 2
    /\ Decimal(LengthDigits) > 25
    /\ Len(BodyBytes) = Decimal(LengthDigits)

\* C13: the output of build starts with "8=<version>" SOH and ends with
\* "10=", three decimal digits and SOH, the digits being the sum modulo 256
\* of all the bytes before those seven, padded with zeros.
C13_Trailer ==
    Built =>
        /\ IsPrefix(<<56, EQ>> \o b_begin_string \o <<SOH>>, out)
        /\ Len(out) >= checksum_field_len
        /\ SubSeq(out, Len(out) - 6, Len(out) - 4) = <<49, 48, EQ>>
        /\ \A i \in 1..3 : TrailerDigits[i] \in 48..57
        /\ out[Len(out)] = SOH
        /\ Decimal(TrailerDigits) = SumBeforeTrailer

\* C13 witness: a message with a staged field whose checksum is below 100,
\* so that its first digit is padding.
C13_Witness ==
    /\ Built
    /\ Len(b_fields) >= 1
    /\ SumBeforeTrailer < 100
    /\ TrailerDigits[1] = 48

(***************************************************************************)
(* Checksum (parser.rs, builder.rs)                                        *)
(***************************************************************************)
\* The sum of the bytes of the runs modulo 256, by modular arithmetic.
RECURSIVE RunsSum(_, _)
RunsSum(runs, i) ==
    IF i > Len(runs) THEN 0
    ELSE (((runs[i].count * runs[i].byte) % 256) + RunsSum(runs, i + 1)) % 256

\* The runs written out as bytes, where they are short enough for that.
Expandable(runs) == \A i \in 1..Len(runs) : runs[i].count <= 256

RECURSIVE Expand(_, _)
Expand(runs, i) ==
    IF i > Len(runs) THEN <<>>
    ELSE [j \in 1..runs[i].count |-> runs[i].byte] \o Expand(runs, i + 1)

\* The plain sum of s[lo..hi].
RECURSIVE ByteTotal(_, _, _)
ByteTotal(s, lo, hi) ==
    IF lo > hi THEN 0
    ELSE IF lo = hi THEN s[lo]
    ELSE ByteTotal(s, lo, (lo + hi) \div 2) + ByteTotal(s, ((lo + hi) \div 2) + 1, hi)

Returned == cs_ret # -1

\* C14: compute_checksum returns the sum of the bytes modulo 256 (0 for no
\* bytes and for 256 bytes 0x01), also where the 32-bit accumulator has
\* wrapped, and the parser's and the builder's copies agree.
C14_ChecksumLaw ==
    Returned =>
        /\ cs_ret = RunsSum(cs_input, 1)
        /\ cs_input = <<>> => cs_ret = 0
        /\ cs_input = <<[byte |-> 1, count |-> 256]>> => cs_ret = 0
        /\ Expandable(cs_input) =>
               LET bytes == Expand(cs_input, 1)
               IN  /\ compute_checksum(bytes) = ByteTotal(bytes, 1, Len(bytes)) % 256
                   /\ builder_compute_checksum(bytes) = compute_checksum(bytes)
                   /\ compute_checksum(bytes) = cs_ret

\* C14 witness: three runs of 2^23 - 1 bytes 0xFF, which sum to more than
\* 2^32, have been consumed and 3 was returned.
C14_Witness ==
    /\ Returned
    /\ Len(cs_input) = 3
    /\ \A i \in 1..3 : cs_input[i] = [byte |-> 255, count |-> 2^23 - 1]
    /\ cs_ret = 3

(***************************************************************************)
(* Session state and frame (session.rs)                                    *)
(***************************************************************************)
OutboundOps == BuildOps \cup {"next_outgoing_seq"}

C16_NoCrossEffects ==
    [][/\ op' = "validate_incoming_seq" =>
             (state' = state /\ outgoing_seq' = outgoing_seq)
       /\ op' \in OutboundOps => incoming_seq' = incoming_seq
       /\ identity' = identity]_vars

\* C16 witness: validate_incoming_seq has returned false on a session that
\* has built messages and accepted ordinals before.
C16_Witness ==
    /\ op = "validate_incoming_seq"
    /\ ~ret_ok
    /\ state = "LogoutSent"
    /\ WToNat(outgoing_seq) >= 3
    /\ Len(accepted) >= 1

\* C17: an inbound message accepted while the session is LogonSent (the
\* counterparty's Logon) leaves it Active, and one accepted while it is
\* LogoutSent (the counterparty's Logout) leaves it Disconnected.
C17_Lifecycle ==
    [][(op' = "validate_incoming_seq" /\ ret_ok') =>
          /\ state = "LogonSent" => state' = "Active"
          /\ state = "LogoutSent" => state' = "Disconnected"]_vars

(***************************************************************************)
(* Order of the encoded fields (builder.rs)                                *)
(***************************************************************************)
\* The number in front of '=' is t written in decimal without leading zeros.
IsNumberOf(seg, t) ==
    /\ HasEq(seg)
    /\ LET digits == SubSeq(seg, 1, FirstEq(seg) - 1)
       IN  /\ digits # <<>>
           /\ (digits[1] = 48 => Len(digits) = 1)
           /\ parse_tag_number(digits) = Some(t)

\* The decimal text of the integers of the model: -1 and 2^64 - 1.
SignedText(v) == CASE v = U64_MAX -> <<45, 49>>
UnsignedText(v) ==
    CASE v = U64_MAX ->
        <<49, 56, 52, 52, 54, 55, 52, 52, 48, 55, 51, 55, 48, 57, 53, 53, 49, 54, 49, 53>>

\* C18: the body of the output of build is "35=<msg_type>" and then one
\* "<tag>=<value>" segment per staging call, in the order of the calls, each
\* followed by exactly one SOH; field_i64 and field_u64 stage what field
\* stages for the decimal text of their argument.
C18_OrderAndDuplicates ==
    /\ [](Built =>
            LET runs == Runs(BodyBytes, 1)
            IN  /\ Len(runs) = 1 + Len(b_fields)
                /\ Segment(BodyBytes, runs[1]) = <<51, 53, EQ>> \o b_msg_type
                /\ \A i \in 1..Len(b_fields) :
                       /\ IsNumberOf(Segment(BodyBytes, runs[i + 1]), b_fields[i][1])
                       /\ FieldValue(Segment(BodyBytes, runs[i + 1])) = b_fields[i][2]
                /\ \A i \in 1..Len(runs) :
                       /\ runs[i].from = (IF i = 1 THEN 1 ELSE runs[i - 1].to + 2)
                       /\ BodyBytes[runs[i].to + 1] = SOH
                /\ runs[Len(runs)].to + 1 = Len(BodyBytes))
    /\ [][/\ \A v \in I64Values :
                field_i64(MSG_SEQ_NUM, v) => field(MSG_SEQ_NUM, SignedText(v))
          /\ \A v \in U64Values :
                field_u64(MSG_SEQ_NUM, v) => field(MSG_SEQ_NUM, UnsignedText(v))]_vars

\* C18 witness: the same field number staged twice, with different values,
\* and both segments written.
C18_Witness ==
    /\ Built
    /\ Len(b_fields) = 2
    /\ b_fields[1][1] = b_fields[2][1]
    /\ b_fields[1][2] # b_fields[2][2]
    /\ Len(Runs(BodyBytes, 1)) = 3

\* C19: build changes nothing of the builder, a build that follows a build
\* returns the same bytes, and staging a field leaves the bytes already
\* returned as they are.
C19_BuildIsPureRead ==
    [][/\ b_phase' = "built" =>
             /\ <<b_begin_string, b_msg_type, b_fields>>' =
                    <<b_begin_string, b_msg_type, b_fields>>
             /\ b_phase = "built" => out' = out
       /\ b_phase' = "staging" => out' = out]_vars

\* C19 witness: a field was staged after a build; the bytes returned then
\* are still held and are not what build returns now.
C19_Witness ==
    /\ b_phase = "staging"
    /\ Len(b_fields) = 2
    /\ out # <<>>
    /\ out # build(b_begin_string, b_msg_type, b_fields)
    /\ IsPrefix(BeforeLength, out)

(***************************************************************************)
(* Header errors (parser.rs)                                               *)
(***************************************************************************)
\* The segment is "<number>=<value>" with a decimal number.
WellFormed(seg) == FieldNumber(seg) >= 0

AllDigits(d) == \A i \in 1..Len(d) : d[i] \in 48..57

RECURSIVE StripZeros(_)
StripZeros(d) == IF d # <<>> /\ d[1] = 48 THEN StripZeros(Tail(d)) ELSE d

\* usize::MAX on a 64-bit target, in decimal.
UsizeMaxText ==
    <<49, 56, 52, 52, 54, 55, 52, 52, 48, 55, 51, 55, 48, 57, 53, 53, 49, 54, 49, 53>>

\* a > b for two digit strings of the same length.
DigitsGreater(a, b) ==
    \E i \in 1..Len(a) : a[i] > b[i] /\ \A j \in 1..(i - 1) : a[j] = b[j]

\* The digit string d denotes a number above usize::MAX.
ExceedsUsize(d) ==
    LET t == StripZeros(d)
    IN  \/ Len(t) > Len(UsizeMaxText)
        \/ Len(t) = Len(UsizeMaxText) /\ DigitsGreater(t, UsizeMaxText)

\* The value of a 9= field is no length: empty, not all digits, or too large.
NoLength(v) == v = <<>> \/ ~AllDigits(v) \/ ExceedsUsize(v)

\* C20: parse returns EmptyInput for the empty input, MissingBeginString
\* when the first segment is a field with a number other than 8, and
\* MissingBodyLength when the first segment is a tag-8 field and the second
\* is absent, a field with a number other than 9, or a tag-9 field whose
\* value is empty, has a non-digit or exceeds usize::MAX.
C20_HeaderErrors ==
    Parsed =>
        LET runs == Runs(input, 1)
            seg1 == Segment(input, runs[1])
            seg2 == Segment(input, runs[2])
        IN  /\ input = <<>> => result.kind = "EmptyInput"
            /\ (Len(runs) >= 1 /\ WellFormed(seg1) /\ FieldNumber(seg1) # 8) =>
                   result.kind = "MissingBeginString"
            /\ (Len(runs) >= 1 /\ WellFormed(seg1) /\ FieldNumber(seg1) = 8) =>
                   /\ Len(runs) = 1 => result.kind = "MissingBodyLength"
                   /\ (Len(runs) >= 2 /\ WellFormed(seg2) /\ FieldNumber(seg2) # 9) =>
                          result.kind = "MissingBodyLength"
                   /\ (Len(runs) >= 2 /\ WellFormed(seg2) /\ FieldNumber(seg2) = 9
                          /\ NoLength(FieldValue(seg2))) =>
                          result.kind = "MissingBodyLength"

\* C20 witness: a sealed message whose 9= field holds 2^64 was refused with
\* MissingBodyLength.
C20_Witness ==
    /\ Parsed
    /\ Len(Runs(input, 1)) >= 3
    /\ FieldNumber(Segment(input, Runs(input, 1)[2])) = 9
    /\ ExceedsUsize(FieldValue(Segment(input, Runs(input, 1)[2])))
    /\ FieldNumber(Segment(input, Runs(input, 1)[Len(Runs(input, 1))])) = 10
    /\ result.kind = "MissingBodyLength"

(***************************************************************************)
(* Segment shapes (parser.rs)                                              *)
(***************************************************************************)
\* u32::MAX in decimal.
U32MaxText == <<52, 50, 57, 52, 57, 54, 55, 50, 57, 53>>

ExceedsU32(d) ==
    LET t == StripZeros(d)
    IN  \/ Len(t) > Len(U32MaxText)
        \/ Len(t) = Len(U32MaxText) /\ DigitsGreater(t, U32MaxText)

NumberText(seg) == SubSeq(seg, 1, FirstEq(seg) - 1)

\* What is wrong with the shape of a segment, if anything.
Shape(seg) ==
    IF ~HasEq(seg) THEN "MalformedField"
    ELSE IF NumberText(seg) = <<>> \/ ~AllDigits(NumberText(seg))
            \/ ExceedsU32(NumberText(seg))
    THEN "InvalidTag"
    ELSE "Ok"

\* Bytes as text.  The only byte above 0x7F in the inputs is 0xFF, which is
\* part of no UTF-8 sequence and reads as U+FFFD (EF BF BD).
RECURSIVE AsText(_)
AsText(b) ==
    IF b = <<>> THEN <<>>
    ELSE (IF b[1] = 255 THEN <<239, 191, 189>> ELSE <<b[1]>>) \o AsText(Tail(b))

\* The text the error for a segment of that shape carries.
ShapeText(seg) == IF HasEq(seg) THEN AsText(NumberText(seg)) ELSE AsText(seg)

ShapeErrorOf(seg) == result.kind = Shape(seg) /\ result.text = ShapeText(seg)

\* One SOH after each of the two header segments and none in front.
PlainHeader == HasHeader /\ Runs(input, 1)[1].from = 1
                          /\ Runs(input, 1)[2].from = Runs(input, 1)[1].to + 2

\* C21: a first segment of a wrong shape, a second one after a tag-8 first
\* segment, and the first body segment of a wrong shape after a passed
\* length check and body segments of the right shape other than tag 10,
\* make parse fail with MalformedField carrying the segment (no '=') or
\* InvalidTag carrying the text before '=' (empty, a non-digit, above
\* u32::MAX).
C21_SegmentShape ==
    Parsed =>
        LET runs   == Runs(input, 1)
            seg(i) == Segment(input, runs[i])
        IN  /\ (Len(runs) >= 1 /\ Shape(seg(1)) # "Ok") => ShapeErrorOf(seg(1))
            /\ (Len(runs) >= 2 /\ Shape(seg(1)) = "Ok" /\ FieldNumber(seg(1)) = 8
                   /\ Shape(seg(2)) # "Ok") => ShapeErrorOf(seg(2))
            /\ \A k \in 3..Len(runs) :
                   (/\ PlainHeader
                    /\ DeclaredLength = MeasuredLength
                    /\ \A j \in 3..(k - 1) :
                           Shape(seg(j)) = "Ok" /\ FieldNumber(seg(j)) # 10
                    /\ Shape(seg(k)) # "Ok") => ShapeErrorOf(seg(k))

\* C21 witness: the second body segment of a message with the right length
\* has a number above u32::MAX, and parse returned InvalidTag with it.
C21_Witness ==
    /\ Parsed
    /\ PlainHeader
    /\ DeclaredLength = MeasuredLength
    /\ Len(Runs(input, 1)) >= 5
    /\ Shape(Segment(input, Runs(input, 1)[3])) = "Ok"
    /\ result.kind = "InvalidTag"
    /\ result.text = <<52, 50, 57, 52, 57, 54, 55, 50, 57, 54>>

(***************************************************************************)
(* Session-built messages (session.rs, builder.rs, parser.rs)              *)
(***************************************************************************)
\* parse accepts the bytes as a message of that type in the session's
\* version, from the own id to the counterparty id, numbered seq.
WellFramed(bytes, msg_type, seq) ==
    LET r == parse(bytes)
    IN  /\ r.kind = "Ok"
        /\ r.msg_type = msg_type
        /\ r.begin_string = begin_string
        /\ {SENDER_COMP_ID, TARGET_COMP_ID, MSG_SEQ_NUM} \subseteq DOMAIN r.fields
        /\ r.fields[SENDER_COMP_ID] = sender_comp_id
        /\ r.fields[TARGET_COMP_ID] = target_comp_id
        /\ r.fields[MSG_SEQ_NUM] = to_string(seq)

HasSoh(text) == \E i \in 1..Len(text) : text[i] = SOH

AdminFramed ==
    /\ op = "build_logon" => WellFramed(msg, <<65>>, ret_seq)
    /\ op = "build_logout" => WellFramed(msg, <<53>>, ret_seq)
    /\ op = "build_heartbeat" => WellFramed(msg, <<48>>, ret_seq)

RECURSIVE WLessFrom(_, _, _)
WLessFrom(a, b, i) ==
    IF i = 0 THEN FALSE
    ELSE IF a[i] # b[i] THEN a[i] < b[i]
    ELSE WLessFrom(a, b, i - 1)

WLess(a, b) == WLessFrom(a, b, Len(a))

\* C23: every outbound operation hands out an ordinal above the one handed
\* out before it and leaves the counter above where it was, also when the
\* counter holds u64::MAX.
C23_StrictlyMonotonic ==
    [][op' \in OutboundOps =>
          /\ WLess(outgoing_seq, outgoing_seq')
          /\ op \in OutboundOps => WLess(ret_seq, ret_seq')]_vars

\* C30 as stated: after any sequence of public operations, direct calls of
\* next_outgoing_seq among them, the counter minus 1 is the number of
\* messages built.
C30_GapFreeAnyOperation == outgoing_seq = U64(builds + 1)

\* C30, amended: the counter minus 1 is the number of messages built plus
\* the number of direct calls of next_outgoing_seq, and the ordinal an
\* outbound operation consumed is that sum.
C30_GapFree ==
    /\ outgoing_seq = U64(builds + direct + 1)
    /\ op \in OutboundOps => ret_seq = U64(builds + direct)

\* C30 witness: a message built after a direct call of next_outgoing_seq
\* and an earlier message carries ordinal 3.
C30_Witness ==
    /\ op \in BuildOps
    /\ builds = 2
    /\ direct = 1
    /\ TagValue(msg, 34) = <<51>>
    /\ outgoing_seq = U64(4)

(***************************************************************************)
(* FixMessage (message.rs)                                                 *)
(***************************************************************************)
\* What a caller can read of a message is the same in m and n.
SameReads(m, n) ==
    /\ m.begin_string = n.begin_string
    /\ m.msg_type = n.msg_type
    /\ \A t \in MessageTags : get(m, t) = get(n, t)

\* after is before with tag t set to value: get(t) returns value, every other
\* get, the version and the message type are as before.
SetEffect(before, after, t, value) ==
    /\ get(after, t) = Some(value)
    /\ after.begin_string = before.begin_string
    /\ after.msg_type = before.msg_type
    /\ \A u \in MessageTags \ {t} : get(after, u) = get(before, u)

\* C24: a set on the clone leaves the original as it was, a set on the
\* original leaves the clone as it was, cloning gives a message that reads
\* like the original, and set(tag, v) makes get(tag) return v, overwriting,
\* and leaves every other tag as it was.
C24_ValueSemantics ==
    [][/\ (fm_op'.name = "set" /\ fm_op'.on = "clone") =>
              /\ SameReads(fm_original', fm_original)
              /\ SetEffect(fm_clone.v, fm_clone'.v, fm_op'.tag, fm_op'.value)
       /\ (fm_op'.name = "set" /\ fm_op'.on = "original") =>
              /\ fm_clone.some => SameReads(fm_clone'.v, fm_clone.v)
              /\ fm_clone'.some = fm_clone.some
              /\ SetEffect(fm_original, fm_original', fm_op'.tag, fm_op'.value)
       /\ fm_op'.name = "clone" =>
              /\ SameReads(fm_clone'.v, fm_original)
              /\ SameReads(fm_original', fm_original)]_vars

\* C24 witness: the symbol was "A" when the message was cloned, the clone's
\* symbol was then set to "B", and the original still reads "A".
C24_Witness ==
    /\ fm_op = MessageOp("set", "clone", SYMBOL, <<66>>)
    /\ get(fm_original, SYMBOL) = Some(<<65>>)
    /\ get(fm_clone.v, SYMBOL) = Some(<<66>>)
    /\ get(fm_clone.v, SIDE) = get(fm_original, SIDE)

(***************************************************************************)
(* Execution reports (convert.rs)                                          *)
(***************************************************************************)
\* The text is a decimal u64, as far as the values of ReportValues go: digits.
IsUnsigned(text) == text # <<>> /\ AllDigits(text) /\ ~ExceedsUsize(text)

\* The text is a decimal i64, as far as the values of ReportValues go: digits
\* after an optional '-'.
IsSigned(text) ==
    LET digits == IF text # <<>> /\ text[1] = 45 THEN Tail(text) ELSE text
    IN  digits # <<>> /\ AllDigits(digits) /\ Len(StripZeros(digits)) < 19

\* The tag is in the message with a value of the integer type it needs.
Usable(t) ==
    /\ get(fm_original, t).some
    /\ IF t = LAST_PX THEN IsSigned(get(fm_original, t).v)
       ELSE IsUnsigned(get(fm_original, t).v)

Reported == fm_op.name = "parse_execution_report"

\* C25: parse_execution_report returns a Fill exactly when each of the tags
\* 17, 37, 11, 31, 32 and 60 is present with a value that parses as the
\* integer type required of it, and None otherwise.
C25_SixRequiredTags == Reported => (fm_fill.some <=> \A t \in ReportTags : Usable(t))

(***************************************************************************)
(* Code tables (convert.rs)                                                *)
(***************************************************************************)
OneToOne(F(_), S) == \A a, b \in S : F(a) = F(b) => a = b

\* The domain values the table F sends to this code.
Recover(F(_), S, code) == {a \in S : F(a) = code}

NewOrderBuilt == op = "build_new_order"

InputSum == ByteTotal(input, 1, Len(input) - checksum_field_len) % 256

\* What a tag-10 segment declares: its value modulo 256, and 0 when the
\* value is no number.
Declares(seg) == IF Decimal(FieldValue(seg)) = -1 THEN 0 ELSE Decimal(FieldValue(seg)) % 256

Refused(seg) ==
    FieldNumber(seg) = 10 /\ (Decimal(FieldValue(seg)) = -1 \/ Declares(seg) # InputSum)

\* The first tag-10 segment after the header that does not declare the sum.
RefusedSegment ==
    LET runs == Runs(input, 1)
    IN  Segment(input, runs[Min({k \in 3..Len(runs) : Refused(Segment(input, runs[k]))})])

ChecksumRefused ==
    /\ Parsed
    /\ result.kind = "InvalidChecksum"
    /\ \E k \in 3..Len(Runs(input, 1)) : Refused(Segment(input, Runs(input, 1)[k]))

BodyRuns == 3..Len(Runs(input, 1))
BodySegment(k) == Segment(input, Runs(input, 1)[k])

\* A parsed message with the right declared length whose segments after the
\* header all have a number and a value, with a tag-10 segment among them
\* and a final segment that is no tag-10 field.
EarlyChecksum ==
    /\ Parsed
    /\ PlainHeader
    /\ DeclaredLength = MeasuredLength
    /\ \A k \in BodyRuns : Shape(BodySegment(k)) = "Ok"
    /\ \E k \in BodyRuns : FieldNumber(BodySegment(k)) = 10
    /\ FieldNumber(BodySegment(Len(Runs(input, 1)))) # 10

\* C28 as stated: a tag-10 segment in front of the final segment is a field
\* like any other: it is not compared against the checksum, and it is stored
\* in the mapping.
C28_EarlyChecksumIsOrdinary ==
    EarlyChecksum =>
        /\ result.kind # "InvalidChecksum"
        /\ result.kind = "Ok" =>
               /\ CHECKSUM \in DOMAIN result.fields
               /\ result.fields[CHECKSUM] = TagValue(input, 10)

\* C28, amended: a tag-10 segment in front of the final segment is handled
\* as the checksum field: it is compared against the computed sum, parse
\* fails with InvalidChecksum when it declares another value, and it is not
\* stored in the mapping, which never holds tag 10.
C28_EarlyChecksumIsChecked ==
    /\ Accepted => CHECKSUM \notin DOMAIN result.fields
    /\ (EarlyChecksum /\ \E k \in BodyRuns : Refused(BodySegment(k))) =>
           /\ result.kind = "InvalidChecksum"
           /\ result.expected = Declares(RefusedSegment)
           /\ result.actual = InputSum

\* C28 witness: "10=ddd" declaring another value than the sum of the bytes
\* in front of the final 7 is followed by a 49= field, and parse refused the
\* message for its checksum.
C28_Witness ==
    /\ EarlyChecksum
    /\ FieldNumber(BodySegment(Len(Runs(input, 1)))) = 49
    /\ Refused(BodySegment(Len(Runs(input, 1)) - 1))
    /\ result.kind = "InvalidChecksum"

(***************************************************************************)
(* The order of the checks (parser.rs)                                     *)
(***************************************************************************)
\* The first segment after the header whose shape is wrong comes before every
\* tag-10 segment: k is its place.
FirstFlaw(k) ==
    /\ k \in BodyRuns
    /\ Shape(BodySegment(k)) # "Ok"
    /\ \A j \in 3..(k - 1) : Shape(BodySegment(j)) = "Ok" /\ FieldNumber(BodySegment(j)) # 10

\* C29: the checks run in the order empty input, first segment, second
\* segment, declared length, body segments from the left.  An input with a
\* tag-8 and a tag-9 segment and a wrong declared length fails with
\* MissingBodyLength, whatever its body segments and its checksum are; one
\* with the right declared length and a body segment of a wrong shape in
\* front of the trailer fails with MalformedField or InvalidTag for the first
\* such segment, whatever its checksum is.
C29_ValidationOrder ==
    Parsed =>
        /\ input = <<>> => result.kind = "EmptyInput"
        /\ (Runs(input, 1) # <<>> /\ Shape(Segment(input, Runs(input, 1)[1])) # "Ok")
               => ShapeErrorOf(Segment(input, Runs(input, 1)[1]))
        /\ (HasHeader /\ DeclaredLength # MeasuredLength)
               => result.kind = "MissingBodyLength"
        /\ (HasHeader /\ DeclaredLength = MeasuredLength)
               => \A k \in BodyRuns : FirstFlaw(k) => ShapeErrorOf(BodySegment(k))

(***************************************************************************)
(* Inputs without a segment (parser.rs)                                    *)
(***************************************************************************)
OnlySoh == input # <<>> /\ \A i \in 1..Len(input) : input[i] = SOH

\* C31: a non-empty input of SOH bytes only has no segment, and parse fails
\* with MissingBeginString, not with EmptyInput.
C31_OnlySohIsMissingBeginString ==
    (Parsed /\ OnlySoh) => result.kind = "MissingBeginString"

(***************************************************************************)
(* Repeated and absent fields (parser.rs)                                  *)
(***************************************************************************)
\* The places after the header of the segments with field number n.
Occurrences(n) == {k \in BodyRuns : FieldNumber(BodySegment(k)) = n}

\* The value of the last segment after the header with field number n, as
\* the text parse makes of it.
LastValue(n) == from_utf8_or_empty(FieldValue(BodySegment(Max(Occurrences(n)))))

\* The field numbers of the segments after the header that go into the
\* mapping: all but 10 and 35.
MappedNumbers ==
    {FieldNumber(BodySegment(k)) : k \in BodyRuns} \ {10, 35}

\* C32: in an accepted input, a field number that occurs in several segments
\* after the header has one entry in the mapping, with the value of its last
\* occurrence, and the message type is the value of the last tag-35 segment.
C32_LastOccurrenceWins ==
    Accepted =>
        /\ DOMAIN result.fields = {U32(n) : n \in MappedNumbers}
        /\ \A n \in MappedNumbers : result.fields[U32(n)] = LastValue(n)
        /\ Occurrences(35) # {} => result.msg_type = LastValue(35)

\* C32 witness: an accepted message with 49=C and then 49=B has B under 49,
\* and one with 35=A and then 35=B has type B.
C32_Witness ==
    /\ Accepted
    /\ \/ /\ Cardinality(Occurrences(49)) = 2
          /\ FieldValue(BodySegment(Min(Occurrences(49)))) = <<67>>
          /\ result.fields[U32(49)] = <<66>>
       \/ /\ Cardinality(Occurrences(35)) = 2
          /\ FieldValue(BodySegment(Min(Occurrences(35)))) = <<65>>
          /\ result.msg_type = <<66>>

\* The input passes the version, length and checksum checks: a plain header
\* with the right declared length, segments of the right shape after it, and
\* tag 10 in the final segment only, declaring the sum.
PassesChecks ==
    /\ PlainHeader
    /\ DeclaredLength = MeasuredLength
    /\ \A k \in BodyRuns : Shape(BodySegment(k)) = "Ok"
    /\ Occurrences(10) = {Len(Runs(input, 1))}
    /\ ~Refused(BodySegment(Len(Runs(input, 1))))

DeclaredChecksum ==
    LET last == BodySegment(Len(Runs(input, 1)))
    IN  IF /\ Len(Runs(input, 1)) >= 3
           /\ FieldNumber(last) = 10
           /\ Len(FieldValue(last)) = 3
        THEN Decimal(FieldValue(last))
        ELSE -1

\* A message that passes every check in front of the checksum comparison and
\* declares a three-digit number in its final segment, its only tag 10.
DeclaresThreeDigits ==
    /\ Parsed
    /\ PlainHeader
    /\ DeclaredLength = MeasuredLength
    /\ \A k \in BodyRuns : Shape(BodySegment(k)) = "Ok"
    /\ Occurrences(10) = {Len(Runs(input, 1))}
    /\ DeclaredChecksum >= 0

RunSegments == [k \in 1..Len(Runs(input, 1)) |-> Segment(input, Runs(input, 1)[k])]

\* The passes of next() that took a slice off the front of the remaining
\* bytes: all but the one that found them empty and returned None.
AdvancingPasses == IF it_state = "done" THEN it_passes - 1 ELSE it_passes

\* C35: the iterator yields the maximal non-empty runs of non-SOH bytes of
\* its input in input order, never a segment of length zero, a final run
\* without SOH included, and stops after at most Len(input) passes that take
\* bytes off the input.
C35_YieldsMaximalRuns ==
    it_state \in {"live", "done"} =>
        /\ Len(it_yielded) <= Len(RunSegments)
        /\ it_yielded = SubSeq(RunSegments, 1, Len(it_yielded))
        /\ \A k \in 1..Len(it_yielded) :
               /\ it_yielded[k] # <<>>
               /\ \A i \in 1..Len(it_yielded[k]) : it_yielded[k][i] # SOH
        /\ AdvancingPasses <= Len(input) - Len(it_remaining)
        /\ it_state = "done" =>
               /\ it_yielded = RunSegments
               /\ it_remaining = <<>>
               /\ AdvancingPasses <= Len(input)

\* C35 witness: the iterator was drained over an input with a leading SOH,
\* two SOH in a row and a final run without SOH, and yielded that run.
C35_Witness ==
    /\ it_state = "done"
    /\ Len(input) = MaxRaw
    /\ input[1] = SOH
    /\ \E i \in 1..(Len(input) - 1) : input[i] = SOH /\ input[i + 1] = SOH
    /\ input[Len(input)] # SOH
    /\ it_yielded = <<<<input[Len(input)]>>>>

\* The bytes "<number>=<value>" SOH of the i-th staged field.
StagedBytes(i) == to_string(b_fields[i][1]) \o <<EQ>> \o b_fields[i][2] \o <<SOH>>

\* out holds the i-th staged field as it was staged.
Written(i) ==
    \E k \in 1..Len(out) : SubSeq(out, k, k + Len(StagedBytes(i)) - 1) = StagedBytes(i)

\* parse(build()) is a message that holds the i-th staged value under its
\* field number.
Held(i) ==
    /\ decoded.kind = "Ok"
    /\ b_fields[i][1] \in DOMAIN decoded.fields
    /\ decoded.fields[b_fields[i][1]] = b_fields[i][2]

StagedWithSoh == {i \in 1..Len(b_fields) : HasSoh(b_fields[i][2])}
StagedWithEq  == {i \in 1..Len(b_fields) : HasEq(b_fields[i][2])}

\* C36 as stated: build takes every staged value, and parse(build()) holds
\* no staged value that contains SOH or '=' under its field number.
C36_SohOrEqCorrupts ==
    /\ b_phase \in {"built", "decoded"} => \A i \in 1..Len(b_fields) : Written(i)
    /\ b_phase = "decoded" => \A i \in StagedWithSoh \cup StagedWithEq : ~Held(i)

\* C36, amended: build takes every staged value and writes it as it is;
\* parse(build()) holds no staged value that contains SOH under its field
\* number; and when no staged value contains SOH and no staged field number
\* is 8, 9, 10 or 35 the round trip holds, so a value with '=' is read back
\* whole.
C36_SohCorrupts ==
    /\ b_phase \in {"built", "decoded"} => \A i \in 1..Len(b_fields) : Written(i)
    /\ b_phase = "decoded" => \A i \in StagedWithSoh : ~Held(i)
    /\ (b_phase = "decoded" /\ StagedWithSoh = {}
            /\ StagedNumbers \cap StructuralNumbers = {}) => RoundTrips

\* C36 witness: a value with SOH was staged, and parse accepted the built
\* bytes as a message with another value for that field.
C36_Witness ==
    /\ b_phase = "decoded"
    /\ StagedWithSoh = {1}
    /\ decoded.kind = "Ok"
    /\ b_fields[1][1] \in DOMAIN decoded.fields
    /\ ~Held(1)

=============================================================================
